---- MODULE Spec2Model ----
(***************************************************************************)
(* The battle orchestrator of app_gradio_fastapi/services/battle_manager.py *)
(* as a state machine: the process-wide registry (cls._battles and         *)
(* cls._queues), one pipeline task per run, and the stream_progress         *)
(* generators that read a run's queue.                                      *)
(*                                                                          *)
(* One action is one piece of code that the asyncio event loop runs         *)
(* without interruption: from one suspension point (asyncio.sleep,          *)
(* asyncio.to_thread, asyncio.gather, a generator's yield) to the next.     *)
(* `await cls._emit_update(...)` is not a suspension point: the queue is    *)
(* unbounded, so queue.put never yields to the loop.                        *)
(***************************************************************************)
EXTENDS Integers, Sequences, FiniteSets, TLC

\* ------------------------------------------------------------------ values

\* Python's None and a present value, for the Optional fields.
None == <<>>
Some(v) == <<v>>
Truthy(x) == x # None /\ x # Some("")

\* The run ids create_battle can draw (uuid4 values). Runs share nothing but
\* the two registry tables, which are keyed by id.
BattleIds == {"b1", "b2"}

\* The id of the run the orchestrator and stream specifications follow.
OneRun == {"b1"}

\* The number of bars the pipeline asks generate_waveform_data for.
NumBars == 100

\* Tempo estimates (in tenths of a BPM) detect_bpm_from_multiple can return:
\* a midpoint of two common tempos, the 120.0 default, one above the range.
DetectedBpms == {975, 1200, 1600}

BOOL == {TRUE, FALSE}

\* BattleStage, in declaration order.
Stages ==
  << "queued", "parsing", "style_ref_a", "style_ref_b", "voice_a", "voice_b",
     "bpm_detect", "beat_gen", "mixing", "talkhead", "lipsync_heads",
     "complete", "failed" >>

\* BattleConfig: the fields the pipeline's control flow reads. Paths are
\* Optional strings; a style is a preset label or the custom-upload label.
AllConfigs ==
  [ audio_only : BOOL,
    fighter_a_image_path : {None, Some("a.png")},
    fighter_b_image_path : {None, Some("b.png")},
    fighter_a_voice_path : {None, Some("a_voice.mp3")},
    fighter_b_voice_path : {None, Some("b_voice.mp3")},
    fighter_a_style : {"preset", "custom"},
    fighter_b_style : {"preset", "custom"},
    fighter_a_lyrics : {"", "bars a"},
    fighter_b_lyrics : {"", "bars b"} ]

\* get_preset_path: the preset clip of a label, None for a custom upload.
get_preset_path(label) ==
  IF label = "preset" THEN Some("preset.mp3") ELSE None

\* `y or x`: the second operand preferred.
Or_second(x, y) == IF Truthy(y) THEN y ELSE x

\* Python's `x or y` on two Optional paths.
Or(x, y) == IF Truthy(x) THEN x ELSE y

\* ------------------------------------------------------------------ tempo

common_bpms == << 85, 90, 95, 100, 105, 110, 120, 130, 140, 145, 150 >>

Abs(x) == IF x < 0 THEN -x ELSE x

\* The same choice with a tie going to the later entry of the list.
snap_bpm_to_common_last(bpm10) ==
  LET d(i) == Abs(common_bpms[i] * 10 - bpm10)
      best == CHOOSE i \in 1..Len(common_bpms) :
                \A j \in 1..Len(common_bpms) :
                  d(i) < d(j) \/ (d(i) = d(j) /\ i >= j)
  IN  common_bpms[best]

\* The estimate truncated to a whole tempo instead of snapped.
snap_bpm_to_common_raw(bpm10) == bpm10 \div 10

\* min(common_bpms, key=lambda x: abs(x - bpm)): the first entry of the list
\* with the least distance. The argument is in tenths of a BPM.
snap_bpm_to_common(bpm10) ==
  LET d(i) == Abs(common_bpms[i] * 10 - bpm10)
      best == CHOOSE i \in 1..Len(common_bpms) :
                \A j \in 1..Len(common_bpms) :
                  d(i) < d(j) \/ (d(i) = d(j) /\ i <= j)
  IN  common_bpms[best]

\* ------------------------------------------------------------------ state

VARIABLES
  battles,   \* cls._battles: TRUE when the id is a key of the table
  queues,    \* cls._queues: TRUE when the id is a key of the table
  state,     \* the BattleState object created for the id (NoBattle before)
  fifo,      \* the contents of the asyncio.Queue object created for the id
  cfg,       \* the BattleConfig of the run (state.config, never written)
  task,      \* the pipeline task of the run: its position and its locals
  pushed,    \* history: every snapshot _emit_update has put on the run's queue
  streams,   \* the stream_progress generators
  call       \* the last call of a service function: its name, arguments, result

vars == << battles, queues, state, fifo, cfg, task, pushed, streams, call >>

\* No service function called yet.
NoCall == [fn |-> "none"]

NoBattle == [absent |-> TRUE]
NoConfig == [absent |-> TRUE]

\* BattleState(...) as create_battle constructs it.
InitialState ==
  [ stage |-> "queued", progress |-> 0, message |-> "Battle queued",
    audio_url |-> None, error |-> None, audio_clips |-> << >>,
    detected_bpm |-> None, beat_path |-> None, mixed_audio_path |-> None,
    timing_data |-> None, waveform |-> << >>,
    talking_head_a |-> None, talking_head_b |-> None ]

\* The locals of _run_full_pipeline, and the states of the two coroutines of
\* a pending asyncio.gather (ga, gb) with their results (ra, rb).
NoTask ==
  [ pc |-> "none", style_ref_a |-> None, style_ref_b |-> None,
    audio_a |-> None, audio_b |-> None, target_bpm |-> None,
    beat_json |-> None, beat_path |-> None, mixed_audio |-> None,
    base_video_a |-> None, base_video_b |-> None,
    ga |-> "none", gb |-> "none", ra |-> None, rb |-> None,
    va |-> None, vb |-> None, exc |-> None ]

\* ------------------------------------------------- snapshots and updates

\* The derived status of _state_to_dict.
StatusOf(stage) ==
  IF stage = "complete" THEN "complete"
  ELSE IF stage = "failed" THEN "failed" ELSE "in_progress"

\* Path(p).name under /outputs/ for a talking-head path.
OutputsUrl(p) == Some(<< "/outputs/", p[1] >>)

\* _state_to_dict: the fixed projection, plus the keys that are present only
\* when the field is truthy.
state_to_dict(b, st) ==
  [ battle_id |-> b, stage |-> st.stage, progress |-> st.progress,
    message |-> st.message, status |-> StatusOf(st.stage),
    audio_url |-> st.audio_url, detected_bpm |-> st.detected_bpm,
    error |-> st.error ]
  @@ (IF Truthy(st.timing_data) THEN [timing_data |-> st.timing_data] ELSE << >>)
  @@ (IF st.waveform # << >> THEN [waveform |-> st.waveform] ELSE << >>)
  @@ (IF Truthy(st.talking_head_a)
        THEN [talking_head_a_url |-> OutputsUrl(st.talking_head_a)] ELSE << >>)
  @@ (IF Truthy(st.talking_head_b)
        THEN [talking_head_b_url |-> OutputsUrl(st.talking_head_b)] ELSE << >>)

\* The "Update state" part of _emit_update: each keyword given overwrites its
\* field, the others keep their value.
apply_kwargs(st, kw) ==
  [ st EXCEPT
      !.stage = IF "stage" \in DOMAIN kw THEN kw.stage ELSE @,
      !.progress = IF "progress" \in DOMAIN kw THEN kw.progress ELSE @,
      !.message = IF "message" \in DOMAIN kw THEN kw.message ELSE @,
      !.audio_url = IF "audio_url" \in DOMAIN kw THEN kw.audio_url ELSE @,
      !.detected_bpm = IF "detected_bpm" \in DOMAIN kw THEN kw.detected_bpm ELSE @,
      !.error = IF "error" \in DOMAIN kw THEN kw.error ELSE @ ]

\* The handler with the progress reset instead of kept.
failed_kwargs_reset(st, e) ==
  [ stage |-> "failed", progress |-> 0, message |-> e, error |-> Some(e) ]

\* The keyword arguments of the exception handler's update, for the
\* exception text e and the state as it is when the handler runs.
failed_kwargs(st, e) ==
  [ stage |-> "failed", progress |-> st.progress, message |-> e, error |-> Some(e) ]

\* What one uninterrupted piece of the pipeline does, as a list of steps:
\* an update, a direct assignment to a field of the state, or the handler.
Emit(kw) == [op |-> "emit", kw |-> kw]
Set(f, v) == [op |-> "set", f |-> f, v |-> v]
Handle(e) == [op |-> "handle", e |-> e]

\* An update that skips the two registry lookups.
emit_update_unchecked(b, m, kw) ==
  LET st2 == apply_kwargs(m.st, kw)
      snap == state_to_dict(b, st2)
  IN  [m EXCEPT !.st = st2, !.q = Append(@, snap), !.log = Append(@, snap)]

\* A machine m = [reg, st, q, log]: whether both registry lookups of
\* _emit_update succeed, the state object, the queue and the history.
emit_update(b, m, kw) ==
  IF ~m.reg THEN m
  ELSE LET st2 == apply_kwargs(m.st, kw)
           snap == state_to_dict(b, st2)
       IN  [m EXCEPT !.st = st2, !.q = Append(@, snap), !.log = Append(@, snap)]

step_op(b, m, o) ==
  IF o.op = "emit" THEN emit_update(b, m, o.kw)
  ELSE IF o.op = "set" THEN [m EXCEPT !.st = [@ EXCEPT ![o.f] = o.v]]
  ELSE emit_update(b, m, failed_kwargs(m.st, o.e))

RECURSIVE run_ops(_, _, _)
run_ops(b, m, ops) ==
  IF ops = << >> THEN m
  ELSE run_ops(b, step_op(b, m, Head(ops)), Tail(ops))

\* ------------------------------------------------- adapters (their results)

\* What a call that returns (artifact | None, status) can do: return an
\* artifact, return None, or raise from code outside its own try blocks.
TupleResults == {"ok", "none", "raise"}

\* What a call that returns a plain value can do.
PlainResults == {"ok", "raise"}

\* generate_rap_voice returns (None, "Error: No lyrics provided") before any
\* request when the lyrics are blank.
generate_rap_voice(lyrics) ==
  IF lyrics = "" THEN {"none"} ELSE TupleResults

\* upload_to_temp_host(path): (url | None, status).
upload_to_temp_host == TupleResults

\* output_dir.mkdir(exist_ok=True): returns, or raises (the path exists as a
\* file, or the parent is not writable).
mkdir == {"ok", "raise"}

\* str(e) of the exception raised by each call, and of the pipeline's own
\* `raise Exception(...)` statements.
ExcText(site) == "error in " \o site
VoiceFailedText(name) == "Failed to generate voice for " \o name \o ": no audio"
BeatFailedText == "Failed to generate beat pattern: no pattern"

\* ------------------------------------------------- the pipeline, piecewise

\* A piece of the pipeline: the steps it runs and the locals it ends with
\* (pc names the suspension point it stops at).
K(ops, t) == [ops |-> ops, t |-> t]
Pre(ops, r) == [ops |-> ops \o r.ops, t |-> r.t]
At(t, pc) == [t EXCEPT !.pc = pc]

\* A handler that reports the failure without the error field.
Raise_no_error(t, e) ==
  K(<< Emit([stage |-> "failed", message |-> e]) >>,
    [t EXCEPT !.pc = "done", !.exc = Some(e)])

\* except Exception as e: the handler's update, then the task ends.
Raise(t, e) == K(<< Handle(e) >>, [t EXCEPT !.pc = "done", !.exc = Some(e)])

AudioUrl == Some("/outputs/battle.mp3")

\* The last update followed by the handler, as if the return were caught.
AfterAlign_handled(t, timing) ==
  K(<< Set("timing_data", timing),
       Emit([stage |-> "complete", progress |-> 100,
             message |-> "Battle complete!", audio_url |-> AudioUrl]),
       Handle("return") >>,
    At(t, "done"))

\* Lines 586-593: the last update, then return.
AfterAlign(t, timing) ==
  K(<< Set("timing_data", timing),
       Emit([stage |-> "complete", progress |-> 100,
             message |-> "Battle complete!", audio_url |-> AudioUrl]) >>,
    At(t, "done"))

\* The waveform stored with its update left for after the next call.
AfterWaveform_unpublished(t, wf) ==
  K(<< Set("waveform", wf) >>, At(t, "align"))

\* Lines 568-583.
AfterWaveform(t, wf) ==
  K(<< Set("waveform", wf),
       Emit([progress |-> 90, message |-> "Aligning lyrics to audio..."]) >>,
    At(t, "align"))

\* Lines 556-567.
ArenaData(t) ==
  K(<< Emit([progress |-> 80, message |-> "Generating battle arena data..."]) >>,
    At(t, "waveform"))

\* The talking heads stored only when both lip-sync results are there.
AfterLipsync_both(t) ==
  Pre((IF Truthy(t.ra) /\ Truthy(t.rb)
         THEN << Set("talking_head_a", t.ra), Set("talking_head_b", t.rb) >>
         ELSE << >>),
      ArenaData(t))

\* Lines 541-554: a talking head is stored only when its lip-sync result is
\* truthy.
AfterLipsync(t) ==
  Pre((IF Truthy(t.ra) THEN << Set("talking_head_a", t.ra) >> ELSE << >>)
      \o (IF Truthy(t.rb) THEN << Set("talking_head_b", t.rb) >> ELSE << >>),
      ArenaData(t))

\* The lip-sync stage entered whether or not a base video exists.
AfterTalkhead_always(t) ==
  K(<< Emit([stage |-> "lipsync_heads", progress |-> 65,
             message |-> "Applying lip sync (Sync Labs)..."]) >>,
    [t EXCEPT !.pc = "lipsync",
              !.ga = IF Truthy(t.base_video_a) THEN "upload_video" ELSE "done",
              !.gb = IF Truthy(t.base_video_b) THEN "upload_video" ELSE "done",
              !.ra = None, !.rb = None, !.va = None, !.vb = None])

\* Lines 493-540: the lip-sync stage is entered when a base video exists; each
\* of lipsync_a and lipsync_b returns at once without one.
AfterTalkhead(t) ==
  IF Truthy(t.base_video_a) \/ Truthy(t.base_video_b)
    THEN K(<< Emit([stage |-> "lipsync_heads", progress |-> 65,
                    message |-> "Applying lip sync (Sync Labs)..."]) >>,
           [t EXCEPT !.pc = "lipsync",
                     !.ga = IF Truthy(t.base_video_a) THEN "upload_video" ELSE "done",
                     !.gb = IF Truthy(t.base_video_b) THEN "upload_video" ELSE "done",
                     !.ra = None, !.rb = None, !.va = None, !.vb = None])
    ELSE ArenaData(t)

\* Lines 436-481: the audio_url update, then the branch on audio_only. With
\* audio_only false the try block ends here and the function returns.
AfterMix(t, c, mixed) ==
  LET t1 == [t EXCEPT !.mixed_audio = mixed]
      done == << Set("mixed_audio_path", mixed),
                 Emit([progress |-> 50, message |-> "Audio mix complete",
                       audio_url |-> AudioUrl]) >>
  IN  IF ~c.audio_only THEN K(done, At(t1, "done"))
      ELSE IF Truthy(c.fighter_a_image_path) \/ Truthy(c.fighter_b_image_path)
        THEN K(done \o << Emit([stage |-> "talkhead", progress |-> 52,
                                message |-> "Generating talking head videos (Runway)..."]) >>,
               [t1 EXCEPT !.pc = "talkhead",
                          !.ga = IF Truthy(c.fighter_a_image_path) THEN "call" ELSE "done",
                          !.gb = IF Truthy(c.fighter_b_image_path) THEN "call" ELSE "done"])
        ELSE Pre(done, AfterTalkhead(t1))

\* The MIXING update with the stage of an earlier update pasted in.
AfterBeatRender_stale(t, path) ==
  K(<< Set("beat_path", path),
       Emit([progress |-> 42, message |-> "Beat generated"]),
       Emit([stage |-> "bpm_detect", progress |-> 45,
             message |-> "Mixing vocals and beat..."]) >>,
    [t EXCEPT !.pc = "mix", !.beat_path = path])

\* Lines 408-433.
AfterBeatRender(t, path) ==
  K(<< Set("beat_path", path),
       Emit([progress |-> 42, message |-> "Beat generated"]),
       Emit([stage |-> "mixing", progress |-> 45,
             message |-> "Mixing vocals and beat..."]) >>,
    [t EXCEPT !.pc = "mix", !.beat_path = path])

\* Lines 374-397: snap the estimate, store it, two updates.
AfterBpm(t, detected) ==
  LET target == snap_bpm_to_common(detected)
  IN  K(<< Set("detected_bpm", Some(target)),
           Emit([progress |-> 32,
                 message |-> "Detected BPM: " \o ToString(target),
                 detected_bpm |-> Some(target)]),
           Emit([stage |-> "beat_gen", progress |-> 35,
                 message |-> "Generating beat at " \o ToString(target) \o " BPM..."]) >>,
        [t EXCEPT !.pc = "beat_pattern", !.target_bpm = Some(target)])

\* Lines 354-373.
AfterVoiceB(t, audio) ==
  K(<< Set("audio_clips", << t.audio_a, audio >>),
       Emit([progress |-> 34, message |-> "B voice complete"]),
       Emit([stage |-> "bpm_detect", progress |-> 30,
             message |-> "Detecting BPM from rap audio..."]) >>,
    [t EXCEPT !.pc = "bpm", !.audio_b = audio])

\* Lines 330-349.
AfterVoiceA(t, audio) ==
  K(<< Emit([progress |-> 26, message |-> "A voice complete"]),
       Emit([stage |-> "voice_b", progress |-> 28,
             message |-> "Generating voice for B..."]) >>,
    [t EXCEPT !.pc = "voice_b", !.audio_a = audio])

\* Lines 306-325.
StyleBDone(t, ref) ==
  K(<< Emit([progress |-> 18, message |-> "B style reference ready"]),
       Emit([stage |-> "voice_a", progress |-> 20,
             message |-> "Generating voice for A..."]) >>,
    [t EXCEPT !.pc = "voice_a", !.style_ref_b = ref])

\* Lines 268-304: with an identity sample and a preset clip the style-transfer
\* call is made; otherwise whichever of the two exists is the reference.
StyleADone(t, c, ref) ==
  LET t1 == [t EXCEPT !.style_ref_a = ref]
      ops == << Emit([progress |-> 10, message |-> "A style reference ready"]),
                Emit([stage |-> "style_ref_b", progress |-> 12,
                      message |-> "Creating style reference for B..."]) >>
  IN  IF Truthy(c.fighter_b_voice_path) /\ Truthy(get_preset_path(c.fighter_b_style))
        THEN K(ops, At(t1, "style_b"))
        ELSE Pre(ops, StyleBDone(t1, Or(c.fighter_b_voice_path,
                                        get_preset_path(c.fighter_b_style))))

\* Lines 235-266.
AfterSleep(t, c) ==
  LET ops == << Emit([stage |-> "style_ref_a", progress |-> 4,
                      message |-> "Creating style reference for A..."]) >>
  IN  IF Truthy(c.fighter_a_voice_path) /\ Truthy(get_preset_path(c.fighter_a_style))
        THEN K(ops, At(t, "style_a"))
        ELSE Pre(ops, StyleADone(t, c, Or(c.fighter_a_voice_path,
                                          get_preset_path(c.fighter_a_style))))

\* Lines 226-233: the first update, then asyncio.sleep.
FirstPiece(t) ==
  K(<< Emit([stage |-> "parsing", progress |-> 2,
             message |-> "Parsing lyrics..."]) >>,
    At(t, "sleep"))

\* ------------------------------------------------------------- the actions

\* Run a piece on run b: its steps on the state object and the queue, its
\* locals into the task. _emit_update looks both tables up again each time.
Commit(b, r) ==
  LET m0 == [reg |-> battles[b] /\ queues[b], st |-> state[b],
             q |-> fifo[b], log |-> pushed[b]]
      m == run_ops(b, m0, r.ops)
  IN  /\ state' = [state EXCEPT ![b] = m.st]
      /\ fifo' = [fifo EXCEPT ![b] = m.q]
      /\ pushed' = [pushed EXCEPT ![b] = m.log]
      /\ task' = [task EXCEPT ![b] = r.t]
      /\ UNCHANGED << battles, queues, cfg, streams, call >>

\* create_battle awaiting the pipeline up to its first suspension point.
Scheduled_awaited == FirstPiece(NoTask)

\* asyncio.create_task(cls._run_full_pipeline(battle_id)): the task is
\* scheduled; none of its code runs before create_battle returns.
Scheduled == K(<< >>, At(NoTask, "start"))

\* create_battle(config) with a fresh id b.
create_battle(b, c) ==
  /\ task[b].pc = "none"
  /\ ~battles[b]
  /\ battles' = [battles EXCEPT ![b] = TRUE]
  /\ queues' = [queues EXCEPT ![b] = TRUE]
  /\ cfg' = [cfg EXCEPT ![b] = c]
  /\ LET m == run_ops(b, [reg |-> TRUE, st |-> InitialState, q |-> << >>,
                          log |-> << >>], Scheduled.ops)
     IN  /\ state' = [state EXCEPT ![b] = m.st]
         /\ fifo' = [fifo EXCEPT ![b] = m.q]
         /\ pushed' = [pushed EXCEPT ![b] = m.log]
  /\ task' = [task EXCEPT ![b] = Scheduled.t]
  /\ UNCHANGED << streams, call >>

\* get_battle(id): the state object of a registered id, None otherwise.
get_battle(b) == IF battles[b] THEN state[b] ELSE NoBattle

\* The task's first run: lines 215-233. The lookup and the mkdir precede the
\* try block, so an exception of mkdir ends the task with that exception.
PipelineStart(b) ==
  /\ task[b].pc = "start"
  /\ \E o \in mkdir :
       IF ~battles[b]
         THEN Commit(b, K(<< >>, At(task[b], "done")))
       ELSE IF o = "raise"
         THEN Commit(b, K(<< >>, [task[b] EXCEPT !.pc = "escaped",
                                                !.exc = Some(ExcText("mkdir"))]))
       ELSE Commit(b, FirstPiece(task[b]))

\* asyncio.sleep(0.3) returns.
SleepReturn(b) ==
  /\ task[b].pc = "sleep"
  /\ Commit(b, AfterSleep(task[b], cfg[b]))

\* create_style_reference returns for fighter A: on no artifact the identity
\* sample (or else the preset clip) is the reference.
StyleAReturn(b) ==
  /\ task[b].pc = "style_a"
  /\ \E o \in TupleResults :
       Commit(b,
         IF o = "raise" THEN Raise(task[b], ExcText("create_style_reference a"))
         ELSE StyleADone(task[b], cfg[b],
                IF o = "ok" THEN Some("style_ref_a.mp3")
                ELSE Or(cfg[b].fighter_a_voice_path,
                        get_preset_path(cfg[b].fighter_a_style))))

StyleBReturn(b) ==
  /\ task[b].pc = "style_b"
  /\ \E o \in TupleResults :
       Commit(b,
         IF o = "raise" THEN Raise(task[b], ExcText("create_style_reference b"))
         ELSE StyleBDone(task[b],
                IF o = "ok" THEN Some("style_ref_b.mp3")
                ELSE Or(cfg[b].fighter_b_voice_path,
                        get_preset_path(cfg[b].fighter_b_style))))

\* generate_rap_voice returns for fighter A: no artifact raises.
VoiceAReturn(b) ==
  /\ task[b].pc = "voice_a"
  /\ \E o \in generate_rap_voice(cfg[b].fighter_a_lyrics) :
       Commit(b,
         IF o = "raise" THEN Raise(task[b], ExcText("generate_rap_voice a"))
         ELSE IF o = "none" THEN Raise(task[b], VoiceFailedText("A"))
         ELSE AfterVoiceA(task[b], Some("voice_a_out.mp3")))

VoiceBReturn(b) ==
  /\ task[b].pc = "voice_b"
  /\ \E o \in generate_rap_voice(cfg[b].fighter_b_lyrics) :
       Commit(b,
         IF o = "raise" THEN Raise(task[b], ExcText("generate_rap_voice b"))
         ELSE IF o = "none" THEN Raise(task[b], VoiceFailedText("B"))
         ELSE AfterVoiceB(task[b], Some("voice_b_out.mp3")))

\* detect_bpm_from_multiple returns an estimate, or raises.
BpmReturn(b) ==
  /\ task[b].pc = "bpm"
  /\ \/ \E d \in DetectedBpms : Commit(b, AfterBpm(task[b], d))
     \/ Commit(b, Raise(task[b], ExcText("detect_bpm_from_multiple")))

\* generate_beat_pattern with the missing pattern passed on to the renderer.
BeatPatternReturn_lenient(b) ==
  /\ task[b].pc = "beat_pattern"
  /\ \E o \in TupleResults :
       Commit(b,
         IF o = "raise" THEN Raise(task[b], ExcText("generate_beat_pattern"))
         ELSE K(<< >>, [task[b] EXCEPT !.pc = "beat_render",
                                      !.beat_json = IF o = "ok"
                                        THEN Some("pattern json") ELSE None]))

\* generate_beat_pattern returns: no pattern raises, a pattern goes to the
\* renderer (lines 399-407).
BeatPatternReturn(b) ==
  /\ task[b].pc = "beat_pattern"
  /\ \E o \in TupleResults :
       Commit(b,
         IF o = "raise" THEN Raise(task[b], ExcText("generate_beat_pattern"))
         ELSE IF o = "none" THEN Raise(task[b], BeatFailedText)
         ELSE K(<< >>, [task[b] EXCEPT !.pc = "beat_render",
                                      !.beat_json = Some("pattern json")]))

\* generator.generate_from_json returns, or raises on a malformed pattern.
BeatRenderReturn(b) ==
  /\ task[b].pc = "beat_render"
  /\ \E o \in PlainResults :
       Commit(b,
         IF o = "raise" THEN Raise(task[b], ExcText("generate_from_json"))
         ELSE AfterBeatRender(task[b], Some("beat.mp3")))

\* mix_rap_and_beat returns the output path, or raises.
MixReturn(b) ==
  /\ task[b].pc = "mix"
  /\ \E o \in PlainResults :
       Commit(b,
         IF o = "raise" THEN Raise(task[b], ExcText("mix_rap_and_beat"))
         ELSE AfterMix(task[b], cfg[b], Some("battle.mp3")))

\* --- asyncio.gather of the two per-fighter coroutines

Sides == {"a", "b"}
G(t, side) == IF side = "a" THEN t.ga ELSE t.gb
SetG(t, side, g, r) ==
  IF side = "a" THEN [t EXCEPT !.ga = g, !.ra = r] ELSE [t EXCEPT !.gb = g, !.rb = r]
V(t, side) == IF side = "a" THEN t.va ELSE t.vb
SetV(t, side, g, v) ==
  IF side = "a" THEN [t EXCEPT !.ga = g, !.va = v] ELSE [t EXCEPT !.gb = g, !.vb = v]

\* gather hands the first exception of a child to the awaiting pipeline; what
\* the other child does afterwards reaches nobody.
NoRaised(t) == t.ga # "raised" /\ t.gb # "raised"

\* A gather that hands over as soon as one child is through.
Joinable_first(t) ==
  t.ga \in {"done", "raised"} \/ t.gb \in {"done", "raised"}

Joinable(t) == ~NoRaised(t) \/ (t.ga = "done" /\ t.gb = "done")
RaisedSide(t) == IF t.ga = "raised" THEN "a" ELSE "b"

\* generate_video_from_image returns in gen_video_a / gen_video_b.
TalkheadReturn(b, side) ==
  /\ task[b].pc = "talkhead"
  /\ NoRaised(task[b])
  /\ G(task[b], side) = "call"
  /\ \E o \in TupleResults :
       Commit(b, K(<< >>,
         IF o = "raise" THEN SetG(task[b], side, "raised", None)
         ELSE SetG(task[b], side, "done",
                   IF o = "ok" THEN Some("video_" \o side \o ".mp4") ELSE None)))

\* Lines 479-491: the gather returns (or raises) in the pipeline.
TalkheadJoin(b) ==
  /\ task[b].pc = "talkhead"
  /\ Joinable(task[b])
  /\ Commit(b,
       IF ~NoRaised(task[b])
         THEN Raise(task[b],
                    ExcText("generate_video_from_image " \o RaisedSide(task[b])))
         ELSE AfterTalkhead([task[b] EXCEPT !.base_video_a = task[b].ra,
                                            !.base_video_b = task[b].rb]))

\* upload_to_temp_host(base_video) returns in lipsync_a / lipsync_b.
UploadVideoReturn(b, side) ==
  /\ task[b].pc = "lipsync"
  /\ NoRaised(task[b])
  /\ G(task[b], side) = "upload_video"
  /\ \E o \in upload_to_temp_host :
       Commit(b, K(<< >>,
         IF o = "raise" THEN SetG(task[b], side, "raised", None)
         ELSE SetV(task[b], side, "upload_audio",
                   IF o = "ok" THEN Some("http://host/video_" \o side) ELSE None)))

\* upload_to_temp_host(audio) returns: without both URLs the coroutine
\* returns (None, "Upload failed"), with both it calls lipsync_video.
UploadAudioReturn(b, side) ==
  /\ task[b].pc = "lipsync"
  /\ NoRaised(task[b])
  /\ G(task[b], side) = "upload_audio"
  /\ \E o \in upload_to_temp_host :
       Commit(b, K(<< >>,
         IF o = "raise" THEN SetG(task[b], side, "raised", None)
         ELSE IF ~Truthy(V(task[b], side)) \/ o = "none"
           THEN SetG(task[b], side, "done", None)
         ELSE SetG(task[b], side, "sync", None)))

\* lipsync_video returns.
LipsyncReturn(b, side) ==
  /\ task[b].pc = "lipsync"
  /\ NoRaised(task[b])
  /\ G(task[b], side) = "sync"
  /\ \E o \in TupleResults :
       Commit(b, K(<< >>,
         IF o = "raise" THEN SetG(task[b], side, "raised", None)
         ELSE SetG(task[b], side, "done",
                   IF o = "ok" THEN Some("talkhead_" \o side \o ".mp4") ELSE None)))

\* Lines 540-560: the gather returns (or raises) in the pipeline.
LipsyncJoin(b) ==
  /\ task[b].pc = "lipsync"
  /\ Joinable(task[b])
  /\ Commit(b,
       IF ~NoRaised(task[b])
         THEN Raise(task[b], ExcText("lipsync " \o RaisedSide(task[b])))
         ELSE AfterLipsync(task[b]))

\* The list generate_waveform_data(path, num_bars) returns: num_bars values.
WaveformResult(num_bars) == [i \in 1..num_bars |-> 0]

\* generate_waveform_data returns, or raises.
WaveformReturn(b) ==
  /\ task[b].pc = "waveform"
  /\ \E o \in PlainResults :
       Commit(b,
         IF o = "raise" THEN Raise(task[b], ExcText("generate_waveform_data"))
         ELSE AfterWaveform(task[b], WaveformResult(NumBars)))

\* align_battle_verses returns its dict, or raises.
AlignReturn(b) ==
  /\ task[b].pc = "align"
  /\ \E o \in PlainResults :
       Commit(b,
         IF o = "raise" THEN Raise(task[b], ExcText("align_battle_verses"))
         ELSE AfterAlign(task[b], Some("timing")))

\* Every step of the pipeline task of run b.
Pipeline(b) ==
  \/ PipelineStart(b)
  \/ SleepReturn(b)
  \/ StyleAReturn(b)
  \/ StyleBReturn(b)
  \/ VoiceAReturn(b)
  \/ VoiceBReturn(b)
  \/ BpmReturn(b)
  \/ BeatPatternReturn(b)
  \/ BeatRenderReturn(b)
  \/ MixReturn(b)
  \/ \E side \in Sides : TalkheadReturn(b, side)
  \/ TalkheadJoin(b)
  \/ \E side \in Sides : UploadVideoReturn(b, side)
  \/ \E side \in Sides : UploadAudioReturn(b, side)
  \/ \E side \in Sides : LipsyncReturn(b, side)
  \/ LipsyncJoin(b)
  \/ WaveformReturn(b)
  \/ AlignReturn(b)

\* --------------------------------------------------------- stream_progress

\* The streams that can be opened, and the heartbeats one stream can emit.
MaxStreams == 2
MaxHeartbeats == 1
StreamIds == 1..MaxStreams

Heartbeat == [heartbeat |-> TRUE]
NoStream ==
  [ pc |-> "idle", id |-> "", out |-> << >>, opened |-> 0, got |-> << >> ]

\* The loop left on success only.
StreamBreaks_complete_only(update) == update.status = "complete"

\* Line 155: the loop is left after an update with a terminal status.
StreamBreaks(update) == update.status \in {"complete", "failed"}

\* A LIFO queue: the newest item first.
QueueGet_lifo(q) == [item |-> q[Len(q)], rest |-> SubSeq(q, 1, Len(q) - 1)]

\* queue.get() on a queue that holds an item: the oldest one.
QueueGet(q) == [item |-> Head(q), rest |-> Tail(q)]

Heartbeats(out) == Cardinality({i \in 1..Len(out) : out[i] = Heartbeat})

\* The generator's first run (lines 136-147): an error object and the end
\* for an id without a queue or a state, the current snapshot otherwise.
\* opened records how many snapshots the run had pushed by then.
StreamOpen(s, b) ==
  /\ streams[s].pc = "idle"
  /\ streams' = [streams EXCEPT ![s] =
       IF ~queues[b]
         THEN [@ EXCEPT !.pc = "notfound", !.id = b,
                        !.out = << [error |-> "Battle not found"] >>]
       ELSE IF ~battles[b]
         THEN [@ EXCEPT !.pc = "notfound", !.id = b,
                        !.out = << [error |-> "Battle state not found"] >>]
       ELSE [@ EXCEPT !.pc = "loop", !.id = b,
                      !.out = << state_to_dict(b, state[b]) >>,
                      !.opened = Len(pushed[b])]]
  /\ UNCHANGED << battles, queues, state, fifo, cfg, task, pushed, call >>

\* Lines 152-156: an update is taken from the queue and yielded. got records
\* which push (its index in the history) each taken update was.
StreamTake(s) ==
  LET b == streams[s].id
      g == QueueGet(fifo[b])
  IN  /\ streams[s].pc = "loop"
      /\ fifo[b] # << >>
      /\ fifo' = [fifo EXCEPT ![b] = g.rest]
      /\ streams' = [streams EXCEPT ![s] =
           [@ EXCEPT !.out = Append(@, g.item),
                     !.got = Append(@, Len(pushed[b]) - Len(fifo[b]) + 1),
                     !.pc = IF StreamBreaks(g.item) THEN "ended" ELSE "loop"]]
      /\ UNCHANGED << battles, queues, state, cfg, task, pushed, call >>

\* Lines 157-159: 30 seconds pass with the queue empty; a heartbeat.
StreamHeartbeat(s) ==
  LET b == streams[s].id
  IN  /\ streams[s].pc = "loop"
      /\ fifo[b] = << >>
      /\ Heartbeats(streams[s].out) < MaxHeartbeats
      /\ streams' = [streams EXCEPT ![s] = [@ EXCEPT !.out = Append(@, Heartbeat)]]
      /\ UNCHANGED << battles, queues, state, fifo, cfg, task, pushed, call >>

Stream(s) ==
  \/ \E b \in OneRun : StreamOpen(s, b)
  \/ StreamTake(s)
  \/ StreamHeartbeat(s)

\* ---------------------------------------------------------- specifications

Init ==
  /\ battles = [b \in BattleIds |-> FALSE]
  /\ queues = [b \in BattleIds |-> FALSE]
  /\ state = [b \in BattleIds |-> NoBattle]
  /\ fifo = [b \in BattleIds |-> << >>]
  /\ cfg = [b \in BattleIds |-> NoConfig]
  /\ task = [b \in BattleIds |-> NoTask]
  /\ pushed = [b \in BattleIds |-> << >>]
  /\ streams = [s \in StreamIds |-> NoStream]
  /\ call = NoCall

\* The orchestrator alone: every configuration, every result of every call.
Next ==
  \E b \in OneRun :
    \/ \E c \in AllConfigs : create_battle(b, c)
    \/ Pipeline(b)

Spec == Init /\ [][Next]_vars

\* The configurations of the runs that are streamed: both lyrics present and
\* preset styles; audio-only without uploads or with an image for fighter A,
\* or not audio-only, without uploads or with a voice sample for each fighter.
StreamConfigs ==
  { c \in AllConfigs :
      /\ c.fighter_a_lyrics # "" /\ c.fighter_b_lyrics # ""
      /\ c.fighter_a_style = "preset" /\ c.fighter_b_style = "preset"
      /\ c.fighter_b_image_path = None
      /\ (c.fighter_a_voice_path = None) = (c.fighter_b_voice_path = None)
      /\ c.fighter_a_voice_path # None => ~c.audio_only
      /\ c.fighter_a_image_path # None => c.audio_only }

\* A client's connections, one after another: connection s is made once the
\* stream of the one before it has ended after a terminal update.
Reconnects(s) ==
  IF s = 1 THEN TRUE ELSE streams[s - 1].pc = "ended"

\* The orchestrator with the stream_progress calls of one client: the first
\* at any moment before, during or after the run, each next one after the
\* previous stream ended.
NextStream ==
  \/ \E b \in OneRun :
       \/ \E c \in StreamConfigs : create_battle(b, c)
       \/ Pipeline(b)
  \/ \E s \in StreamIds : Reconnects(s) /\ Stream(s)

SpecStream == Init /\ [][NextStream]_vars

\* ------------------------------------------------------------------ claims

\* cleanup_battle(id), lines 605-611: the id is deleted from each table that
\* holds it. The state object and the queue object stay with whoever holds a
\* reference to them (the run's task, an open stream).
cleanup_battle(b) ==
  /\ battles' = [battles EXCEPT ![b] = FALSE]
  /\ queues' = [queues EXCEPT ![b] = FALSE]
  /\ UNCHANGED << state, fifo, cfg, task, pushed, streams, call >>

\* The configurations of two runs side by side: for the first id the
\* streamed ones with an upload (a voice sample each, or an image for A), for
\* the other the plain audio run (not audio-only, no uploads).
CleanupConfigs(b) ==
  IF b \in OneRun
    THEN { c \in StreamConfigs :
             c.fighter_a_voice_path # None \/ c.fighter_a_image_path # None }
    ELSE { c \in StreamConfigs :
             ~c.audio_only /\ c.fighter_a_voice_path = None }

\* Two runs and cleanup_battle, called for either id at any moment.
NextCleanup ==
  \E b \in BattleIds :
    \/ \E c \in CleanupConfigs(b) : create_battle(b, c)
    \/ Pipeline(b)
    \/ cleanup_battle(b)

SpecCleanup == Init /\ [][NextCleanup]_vars

\* cleanup_battle(b) called while a stream of run b is in its loop.
CleanupWhileOpen(b) ==
  /\ \E s \in StreamIds : streams[s].pc = "loop" /\ streams[s].id = b
  /\ cleanup_battle(b)

NotHeartbeat(x) == x # Heartbeat

\* The 30-second timeout of a stream whose run has been cleaned up. (While
\* the run is registered its updates are taken to arrive within the timeout.)
\* Nothing in the code limits the heartbeats of one stream; the heartbeats in
\* out are counted modulo MaxHeartbeats + 1, so that a stream that goes on
\* emitting them goes round a cycle.
HeartbeatAfterCleanup(s) ==
  /\ streams[s].pc = "loop"
  /\ ~battles[streams[s].id]
  /\ fifo[streams[s].id] = << >>
  /\ IF Heartbeats(streams[s].out) < MaxHeartbeats
       THEN StreamHeartbeat(s)
       ELSE /\ streams' = [streams EXCEPT ![s] =
                 [@ EXCEPT !.out = SelectSeq(@, NotHeartbeat)]]
            /\ UNCHANGED << battles, queues, state, fifo, cfg, task, pushed, call >>

\* The stream followed through a cleanup.
CleanupStreams == {1}

\* One run with one stream_progress call, opened at any moment, and
\* cleanup_battle called at any moment.
NextCleanupStream ==
  \/ \E b \in OneRun :
       \/ \E c \in CleanupConfigs(b) : create_battle(b, c)
       \/ Pipeline(b)
       \/ CleanupWhileOpen(b)
       \/ \E s \in CleanupStreams : StreamOpen(s, b)
  \/ \E s \in CleanupStreams : StreamTake(s) \/ HeartbeatAfterCleanup(s)

\* What the event loop guarantees a stream that is being consumed: waiting in
\* wait_for(queue.get(), 30.0), it is resumed with an item if the queue holds
\* one and by the timeout otherwise. Nobody is bound to create a run, open a
\* stream or call cleanup_battle, and nothing is assumed of the run's task.
FairCleanupStream ==
  \A s \in CleanupStreams : WF_vars(StreamTake(s) \/ HeartbeatAfterCleanup(s))

SpecCleanupStream ==
  Init /\ [][NextCleanupStream]_vars /\ FairCleanupStream

Terminal == {"complete", "failed"}

\* The position of a stage in BattleStage.
Rank(stage) == CHOOSE i \in 1..Len(Stages) : Stages[i] = stage

\* The stage values a run has had: QUEUED, then the stage of every update.
StageHistory(b) ==
  << "queued" >> \o [i \in 1..Len(pushed[b]) |-> pushed[b][i].stage]

\* The pipeline function of run b has returned.
Returned(b) == task[b].pc = "done"

\* The handler of run b has caught an exception.
Caught(b) == task[b].pc = "done" /\ task[b].exc # None

\* C1: every run eventually reaches COMPLETE or FAILED, for both values of
\* audio_only. Only the run's own task writes its stage, so the claim says
\* that a task which has returned has left the stage COMPLETE or FAILED.
C1_RunEndsTerminal ==
  \A b \in BattleIds : Returned(b) => state[b].stage \in Terminal

\* C2: after an exception at any stage, the final stage is FAILED, the final
\* progress is the progress of the last update emitted before the exception
\* (never 0), and message and error are both the exception text.
C2_FailedKeepsProgress ==
  \A b \in BattleIds :
    Caught(b) =>
      LET log == pushed[b]
          n == Len(log)
      IN  /\ state[b].stage = "failed"
          /\ n >= 2
          /\ log[n].stage = "failed"
          /\ state[b].progress = log[n - 1].progress
          /\ log[n].progress = log[n - 1].progress
          /\ state[b].progress # 0
          /\ state[b].message = task[b].exc[1]
          /\ state[b].error = task[b].exc
          /\ log[n].message = task[b].exc[1]
          /\ log[n].error = task[b].exc

\* C2's case: an exception raised by the last call of the pipeline.
C2_Witness ==
  \E b \in BattleIds :
    /\ Caught(b)
    /\ task[b].exc = Some(ExcText("align_battle_verses"))
    /\ state[b].stage = "failed"
    /\ state[b].progress = 90

\* C3: no exception raised inside the pipeline task escapes it; each becomes
\* stage FAILED with a terminal snapshot on the queue.
C3_NoExceptionEscapes ==
  \A b \in BattleIds :
    task[b].exc # None =>
      /\ task[b].pc # "escaped"
      /\ state[b].stage = "failed"
      /\ pushed[b] # << >>
      /\ pushed[b][Len(pushed[b])].status = "failed"

\* C8: over the successive updates of a run, progress never decreases and
\* lies in [0, 100].
C8_ProgressMonotone ==
  \A b \in BattleIds :
    \A j \in 1..Len(pushed[b]) :
      /\ pushed[b][j].progress \in 0..100
      /\ \A i \in 1..(j - 1) : pushed[b][i].progress <= pushed[b][j].progress

\* The stages a run may skip: the two the pipeline makes optional.
OptionalStages == {"talkhead", "lipsync_heads"}

\* C9: the stage values of a run only move forward in the order of
\* BattleStage; FAILED is entered from a non-terminal stage only, no stage
\* follows COMPLETE or FAILED, and a stage other than FAILED is entered only
\* after every earlier stage that is not optional.
C9_StagesForward ==
  \A b \in BattleIds :
    LET h == StageHistory(b)
    IN  /\ battles[b] => state[b].stage = h[Len(h)]
        /\ \A j \in 1..Len(h) : \A i \in 1..(j - 1) :
             h[i] # h[j] =>
               /\ h[i] \notin Terminal
               /\ h[j] = "failed" \/ Rank(h[i]) < Rank(h[j])
        /\ \A j \in 1..Len(h) :
             h[j] # "failed" =>
               \A r \in 1..(Rank(h[j]) - 1) :
                 Stages[r] \in OptionalStages
                   \/ \E i \in 1..(j - 1) : h[i] = Stages[r]

\* C9's case: a run that went through both optional stages to COMPLETE.
C9_Witness ==
  \E b \in BattleIds :
    /\ state[b] # NoBattle
    /\ state[b].stage = "complete"
    /\ \E i \in 1..Len(pushed[b]) : pushed[b][i].stage = "talkhead"
    /\ \E i \in 1..Len(pushed[b]) : pushed[b][i].stage = "lipsync_heads"

\* C10: when create_battle returns, get_battle(id) is QUEUED with progress 0
\* and no error, an empty queue is registered under the id, and the pipeline
\* has emitted nothing: its task is scheduled and has not run.
C10_CreateReturnsQueued ==
  [][ \A b \in BattleIds :
        (~battles[b] /\ battles'[b]) =>
          /\ get_battle(b)' # NoBattle
          /\ get_battle(b)'.stage = "queued"
          /\ get_battle(b)'.progress = 0
          /\ get_battle(b)'.error = None
          /\ queues'[b]
          /\ fifo'[b] = << >>
          /\ pushed'[b] = << >>
          /\ task'[b].pc = "start" ]_vars

\* C10's case: create_battle has returned and the task has not had a turn.
C10_Witness ==
  \E b \in BattleIds :
    /\ battles[b]
    /\ task[b].pc = "start"
    /\ cfg[b] # NoConfig
    /\ ~cfg[b].audio_only

\* A stream that passed both lookups and yielded the opening snapshot.
Streaming(s) == streams[s].pc \in {"loop", "ended"}

IsTerminalObject(o) ==
  "status" \in DOMAIN o /\ o.status \in Terminal

\* C4: a stream has ended exactly when the last element it took from the
\* queue has status complete or failed; no element taken from the queue
\* before the last is terminal, so nothing follows a terminal update and no
\* heartbeat or in_progress update ends the stream. (Element 1 is the opening
\* snapshot, which is not taken from the queue.)
C4_EndsAtTerminalUpdate ==
  \A s \in StreamIds :
    Streaming(s) =>
      LET out == streams[s].out
          n == Len(out)
      IN  /\ streams[s].pc = "ended" <=> (n >= 2 /\ IsTerminalObject(out[n]))
          /\ \A i \in 2..(n - 1) : ~IsTerminalObject(out[i])

\* C4's case: a stream that emitted a heartbeat, went on, and ended on a
\* failed update.
C4_Witness ==
  \E s \in StreamIds :
    /\ streams[s].pc = "ended"
    /\ Heartbeats(streams[s].out) = 1
    /\ streams[s].out[Len(streams[s].out)].status = "failed"
    /\ streams[s].out[Len(streams[s].out) - 1] # Heartbeat

\* C5: every stream on a registered run ends once the run's stage is COMPLETE
\* or FAILED, whenever it was opened. A finished run pushes nothing more, so
\* a stream that is still in its loop can end only by taking an update that
\* is on the queue: the claim says that a stream still open on a finished run
\* never faces an empty queue.
C5_StreamEndsOnceRunTerminal ==
  \A s \in StreamIds :
    (streams[s].pc = "loop" /\ state[streams[s].id].stage \in Terminal) =>
      fifo[streams[s].id] # << >>

\* C6: the first element is the snapshot of the state when the stream was
\* opened, and every later update the stream yields was pushed after the
\* stream was opened.
C6_OnlyLaterUpdates ==
  \A s \in StreamIds :
    Streaming(s) =>
      /\ streams[s].out[1] =
           (IF streams[s].opened = 0
              THEN state_to_dict(streams[s].id, InitialState)
              ELSE pushed[streams[s].id][streams[s].opened])
      /\ \A k \in 1..Len(streams[s].got) : streams[s].got[k] > streams[s].opened

\* The updates a stream has yielded after its first element.
Updates(s) == SelectSeq(Tail(streams[s].out), LAMBDA o : o # Heartbeat)

\* The streams that read the queue of run b.
Consumers(b) == {s \in StreamIds : Streaming(s) /\ streams[s].id = b}

\* C7: with a single consumer, the updates it has yielded followed by the
\* updates still queued are exactly the snapshots _emit_update pushed, in
\* push order, whatever heartbeats came in between.
C7_SingleConsumerFifo ==
  \A b \in BattleIds : \A s \in Consumers(b) :
    Consumers(b) = {s} =>
      /\ Updates(s) \o fifo[b] = pushed[b]
      /\ streams[s].got = [k \in 1..Len(streams[s].got) |-> k]
      /\ Len(streams[s].got) = Len(Updates(s))

\* C7's case: a consumer that took updates before and after a heartbeat and
\* has taken every update of a finished run.
C7_Witness ==
  \E s \in StreamIds :
    /\ streams[s].pc = "ended"
    /\ Len(Updates(s)) >= 20
    /\ \E i \in 3..(Len(streams[s].out) - 1) : streams[s].out[i] = Heartbeat

\* The snapshot an observer of run b builds from the state object now.
Observed(b) == state_to_dict(b, state[b])

\* The snapshot most recently pushed on the queue of run b, or the QUEUED one.
LastPushed(b) ==
  IF pushed[b] = << >> THEN state_to_dict(b, InitialState)
  ELSE pushed[b][Len(pushed[b])]

\* C11: wherever another task can observe a run (between two uninterrupted
\* pieces of the pipeline), the projection of its state equals the snapshot
\* most recently pushed, or the QUEUED snapshot when none was pushed.
C11_ObservedIsLastSnapshot ==
  \A b \in BattleIds : battles[b] => Observed(b) = LastPushed(b)

\* C11's case: the pipeline suspended in align_battle_verses after the direct
\* assignments to detected_bpm, talking_head_a and waveform.
C11_Witness ==
  \E b \in BattleIds :
    /\ battles[b]
    /\ task[b].pc = "align"
    /\ state[b].detected_bpm # None
    /\ state[b].talking_head_a # None
    /\ state[b].waveform # << >>

\* C12: in every state and in every emitted snapshot, error is non-null
\* exactly when the stage is FAILED.
C12_ErrorIffFailed ==
  \A b \in BattleIds :
    /\ battles[b] => ((state[b].error # None) <=> (state[b].stage = "failed"))
    /\ \A i \in 1..Len(pushed[b]) :
         (pushed[b][i].error # None) <=> (pushed[b][i].stage = "failed")

\* C12's case: a run failed by the pipeline's own raise for a missing voice,
\* after updates without an error.
C12_Witness ==
  \E b \in BattleIds :
    /\ battles[b]
    /\ state[b].stage = "failed"
    /\ state[b].error = Some(VoiceFailedText("B"))
    /\ Len(pushed[b]) >= 2
    /\ pushed[b][Len(pushed[b]) - 1].error = None

\* C13: in every state and in every emitted snapshot, a non-null audio_url
\* implies stage COMPLETE.
C13_AudioUrlOnlyOnSuccess ==
  \A b \in BattleIds :
    /\ battles[b] => (state[b].audio_url # None => state[b].stage = "complete")
    /\ \A i \in 1..Len(pushed[b]) :
         pushed[b][i].audio_url # None => pushed[b][i].stage = "complete"

\* C14: when create_style_reference returns no artifact for a fighter who
\* supplied an identity sample, the step that receives the result leaves the
\* fighter's style reference equal to the identity sample path (not null, not
\* the preset path), enters the next stage and does not fail the run.
C14_StyleFallsBackToIdentity ==
  [][ \A b \in BattleIds :
        /\ ( /\ task[b].pc = "style_a"
             /\ task'[b].exc = None
             /\ task'[b].style_ref_a # Some("style_ref_a.mp3") ) =>
               /\ task'[b].style_ref_a = cfg[b].fighter_a_voice_path
               /\ Truthy(task'[b].style_ref_a)
               /\ task'[b].style_ref_a # get_preset_path(cfg[b].fighter_a_style)
               /\ state'[b].stage \in {"style_ref_b", "voice_a"}
               /\ task'[b].pc \in {"style_b", "voice_a"}
        /\ ( /\ task[b].pc = "style_b"
             /\ task'[b].exc = None
             /\ task'[b].style_ref_b # Some("style_ref_b.mp3") ) =>
               /\ task'[b].style_ref_b = cfg[b].fighter_b_voice_path
               /\ Truthy(task'[b].style_ref_b)
               /\ task'[b].style_ref_b # get_preset_path(cfg[b].fighter_b_style)
               /\ state'[b].stage = "voice_a"
               /\ task'[b].pc = "voice_a" ]_vars

\* C14's case: both style-transfer calls were made and returned no artifact,
\* and the run went on to COMPLETE with the identity samples as references.
C14_Witness ==
  \E b \in BattleIds :
    /\ battles[b]
    /\ Truthy(cfg[b].fighter_a_voice_path)
    /\ Truthy(cfg[b].fighter_b_voice_path)
    /\ cfg[b].fighter_a_style = "preset"
    /\ cfg[b].fighter_b_style = "preset"
    /\ task[b].style_ref_a = cfg[b].fighter_a_voice_path
    /\ task[b].style_ref_b = cfg[b].fighter_b_voice_path
    /\ state[b].stage = "complete"

\* The step fails run b at stage s: the stage becomes FAILED straight from s,
\* the task ends, and no stage after s was ever entered.
FailsAt(b, s) ==
  /\ state'[b].stage = "failed"
  /\ task'[b].pc = "done"
  /\ task'[b].exc # None
  /\ LET h == StageHistory(b)'
     IN  /\ h[Len(h)] = "failed"
         /\ h[Len(h) - 1] = s
         /\ \A i \in 1..(Len(h) - 1) : Rank(h[i]) <= Rank(s)

\* C15: the step that receives the result of vocal synthesis (either
\* fighter), beat pattern generation, beat rendering or mixing either has the
\* artifact and goes on, or ends the run in FAILED at that very stage, so no
\* later stage is entered.
C15_HardFailuresAbort ==
  [][ \A b \in BattleIds :
        /\ (task[b].pc = "voice_a" /\ task'[b].pc # "voice_a") =>
             \/ Truthy(task'[b].audio_a) /\ task'[b].pc = "voice_b"
             \/ FailsAt(b, "voice_a")
        /\ (task[b].pc = "voice_b" /\ task'[b].pc # "voice_b") =>
             \/ Truthy(task'[b].audio_b) /\ task'[b].pc = "bpm"
             \/ FailsAt(b, "voice_b")
        /\ (task[b].pc = "beat_pattern" /\ task'[b].pc # "beat_pattern") =>
             \/ Truthy(task'[b].beat_json) /\ task'[b].pc = "beat_render"
             \/ FailsAt(b, "beat_gen")
        /\ (task[b].pc = "beat_render" /\ task'[b].pc # "beat_render") =>
             \/ Truthy(task'[b].beat_path) /\ task'[b].pc = "mix"
             \/ FailsAt(b, "beat_gen")
        /\ (task[b].pc = "mix" /\ task'[b].pc # "mix") =>
             \/ Truthy(task'[b].mixed_audio) /\ task'[b].exc = None
             \/ FailsAt(b, "mixing") ]_vars

\* C15's case: generate_beat_pattern returned no pattern and the run is
\* FAILED without a MIXING stage.
C15_Witness ==
  \E b \in BattleIds :
    /\ Caught(b)
    /\ task[b].exc = Some(BeatFailedText)
    /\ state[b].stage = "failed"
    /\ \A i \in 1..Len(pushed[b]) : pushed[b][i].stage # "mixing"

\* C16: in a run where either fighter's lyrics are blank, no vocal clip is
\* synthesized for either fighter, and the run ends in FAILED.
C16_NoVoiceWithoutBothLyrics ==
  \A b \in BattleIds :
    (battles[b] /\ (cfg[b].fighter_a_lyrics = "" \/ cfg[b].fighter_b_lyrics = "")) =>
      /\ task[b].audio_a = None
      /\ task[b].audio_b = None
      /\ Returned(b) => state[b].stage = "failed"

\* C17: in an audio-only run, when the pair of talking-head calls or the pair
\* of lip-sync coroutines has returned (no call raised), whatever artifacts
\* are missing, the run is not FAILED and goes on: each fighter's result is
\* kept as it is, independently of the other's, and a run that ends without
\* an exception ends COMPLETE.
C17_SoftFailuresContinue ==
  [][ \A b \in BattleIds :
        (battles[b] /\ cfg[b].audio_only /\ task'[b].pc # task[b].pc) =>
          /\ (task[b].pc = "talkhead" /\ NoRaised(task[b])) =>
               /\ task'[b].exc = None
               /\ state'[b].stage # "failed"
               /\ task'[b].pc \in {"lipsync", "waveform"}
               /\ task'[b].base_video_a = task[b].ra
               /\ task'[b].base_video_b = task[b].rb
          /\ (task[b].pc = "lipsync" /\ NoRaised(task[b])) =>
               /\ task'[b].exc = None
               /\ state'[b].stage # "failed"
               /\ task'[b].pc = "waveform"
               /\ state'[b].talking_head_a = task[b].ra
               /\ state'[b].talking_head_b = task[b].rb
          /\ (task'[b].pc = "done" /\ task'[b].exc = None) =>
               state'[b].stage = "complete" ]_vars

\* C17's case: a COMPLETE run in which fighter A's talking head was made and
\* fighter B's lip-sync produced nothing for B's base video.
C17_Witness ==
  \E b \in BattleIds :
    /\ battles[b]
    /\ state[b].stage = "complete"
    /\ state[b].talking_head_a = Some("talkhead_a.mp4")
    /\ Truthy(task[b].base_video_b)
    /\ state[b].talking_head_b = None

\* C18: at COMPLETE, a fighter whose base video was generated and whose
\* lip-sync produced nothing has the base video path as talking head.
C18_UnsyncedVideoSubstituted ==
  \A b \in BattleIds :
    (battles[b] /\ state[b].stage = "complete") =>
      /\ (Truthy(task[b].base_video_a) /\ ~Truthy(task[b].ra)) =>
           state[b].talking_head_a = task[b].base_video_a
      /\ (Truthy(task[b].base_video_b) /\ ~Truthy(task[b].rb)) =>
           state[b].talking_head_b = task[b].base_video_b

\* Both coroutines of the pending gather of run b have returned a result.
BothReturned(b) == task[b].ga = "done" /\ task[b].gb = "done"

\* Both coroutines of the pending gather of run b are through: each has
\* returned a result or raised, none is still in a call.
BothFinished(b) ==
  task[b].ga \in {"done", "raised"} /\ task[b].gb \in {"done", "raised"}

\* C19 as stated: the talking-head stage and the lip-sync stage are left only
\* after both calls of the pair are through (no call of the pair is still
\* running), and lip-sync starts only from a talking-head stage whose two
\* calls have both returned.
C19_StageLeftAfterBothReturned ==
  [][ \A b \in BattleIds :
        task'[b].pc # task[b].pc =>
          /\ task[b].pc \in {"talkhead", "lipsync"} => BothFinished(b)
          /\ task'[b].pc = "lipsync" =>
               task[b].pc = "talkhead" /\ BothReturned(b) ]_vars

\* C19 amended: the two stages are left after both calls have returned, or
\* at once when one of them raises, the run then being FAILED while the other
\* call may still be running; lip-sync starts only after both talking-head
\* calls have returned.
C19_StageLeftAfterBothOrRaise ==
  [][ \A b \in BattleIds :
        task'[b].pc # task[b].pc =>
          /\ task[b].pc \in {"talkhead", "lipsync"} =>
               \/ BothReturned(b) /\ task'[b].exc = None
               \/ /\ ~NoRaised(task[b])
                  /\ task'[b].pc = "done"
                  /\ state'[b].stage = "failed"
          /\ task'[b].pc = "lipsync" =>
               task[b].pc = "talkhead" /\ BothReturned(b) ]_vars

\* C19's case: both lip-sync calls in flight at once (so both talking-head
\* calls were made, as a pair, and both returned a video).
C19_Witness ==
  \E b \in BattleIds :
    /\ task[b].pc = "lipsync"
    /\ task[b].ga = "sync"
    /\ task[b].gb = "sync"
    /\ Truthy(task[b].base_video_a)
    /\ Truthy(task[b].base_video_b)

\* An audio-only configuration with no uploaded image and no uploaded voice.
PlainAudioOnly(c) ==
  /\ c.audio_only
  /\ c.fighter_a_image_path = None /\ c.fighter_b_image_path = None
  /\ c.fighter_a_voice_path = None /\ c.fighter_b_voice_path = None

\* C20: an audio-only run without uploads in which no call fails ends with
\* stage COMPLETE, progress 100, a non-null audio_url, detected_bpm one of the
\* eleven common tempos and a waveform of exactly 100 values, and never enters
\* TALKHEAD or LIPSYNC_HEADS.
C20_PlainRunCompletes ==
  \A b \in BattleIds :
    (battles[b] /\ PlainAudioOnly(cfg[b]) /\ Returned(b) /\ task[b].exc = None) =>
      /\ state[b].stage = "complete"
      /\ state[b].progress = 100
      /\ state[b].audio_url # None
      /\ state[b].detected_bpm # None
      /\ state[b].detected_bpm[1] \in
           {85, 90, 95, 100, 105, 110, 120, 130, 140, 145, 150}
      /\ Len(state[b].waveform) = 100
      /\ LastPushed(b) = Observed(b)
      /\ \A i \in 1..Len(StageHistory(b)) :
           StageHistory(b)[i] \notin {"talkhead", "lipsync_heads"}

\* C20's case: such a run, finished, whose tempo estimate lay above the list.
C20_Witness ==
  \E b \in BattleIds :
    /\ battles[b]
    /\ PlainAudioOnly(cfg[b])
    /\ Returned(b)
    /\ task[b].exc = None
    /\ state[b].detected_bpm = Some(150)
    /\ Len(state[b].waveform) = 100

\* ------------------------------------------------------- service functions

\* The functions of services/ that read nothing but their arguments (and the
\* files the arguments name) and keep nothing between calls. A call is one
\* step: it records the function, the arguments and the result (or the
\* exception raised). A behaviour makes one call, on any of the arguments.

Range(s) == { s[i] : i \in DOMAIN s }

RECURSIVE Sum(_)
Sum(s) == IF s = << >> THEN 0 ELSE Head(s) + Sum(Tail(s))

\* The lists of at most n elements of S.
SeqsUpTo(S, n) == UNION { [1..k -> S] : k \in 0..n }

\* Nothing called yet in this behaviour.
Idle == call = NoCall

Called(f, a, r) ==
  /\ call' = [fn |-> f, arg |-> a, out |-> r]
  /\ UNCHANGED << battles, queues, state, fifo, cfg, task, pushed, streams >>

\* ---- bpm_detector.py

\* Tempos passed to snap_bpm_to_common, in tenths of a BPM: below the lowest
\* common tempo, every tenth across the list, above the highest.
MinBpm10 == 700
MaxBpm10 == 1650
BpmInputs == MinBpm10..MaxBpm10

snap_bpm_to_common_call ==
  /\ Idle
  /\ \E x \in BpmInputs : Called("snap_bpm_to_common", x, snap_bpm_to_common(x))

\* The path arguments of detect_bpm_from_multiple: None, a path to no file,
\* a file librosa fails on, and audio files with a tempo (tenths of a BPM).
BpmPaths ==
  { [kind |-> "none"], [kind |-> "missing"], [kind |-> "corrupt"],
    [kind |-> "audio", bpm |-> 900], [kind |-> "audio", bpm |-> 1400] }

MaxPaths == 3

\* `path and Path(path).exists()`
PathExists(p) == p.kind \in {"corrupt", "audio"}

\* 120.0, in tenths.
DefaultBpm10 == 1200

\* detect_bpm: the tempo librosa finds, 120.0 when loading or tracking raises.
detect_bpm(p) == IF p.kind = "audio" THEN p.bpm ELSE DefaultBpm10

\* A float quotient, kept exact as numerator and denominator.
Quotient(n, d) == [num |-> n, den |-> d]
SameNumber(q, r) == q.num * r.den = r.num * q.den

\* detect_bpm_from_multiple
detect_bpm_from_multiple(audio_paths) ==
  IF audio_paths = << >> THEN Quotient(DefaultBpm10, 1)
  ELSE LET found == SelectSeq(audio_paths, PathExists)
           bpms == [i \in 1..Len(found) |-> detect_bpm(found[i])]
       IN  IF bpms = << >> THEN Quotient(DefaultBpm10, 1)
           ELSE Quotient(Sum(bpms), Len(bpms))

detect_bpm_from_multiple_call ==
  /\ Idle
  /\ \E ps \in SeqsUpTo(BpmPaths, MaxPaths) :
       Called("detect_bpm_from_multiple", ps, detect_bpm_from_multiple(ps))

\* ---- the calls

\* ---- audio_mixer.py

\* An AudioSegment is the list of its milliseconds, each tagged with where it
\* came from: << "rap", k >> from the k-th clip, << "beat", i >> the i-th
\* millisecond of the beat file, << "silence", 0 >> from AudioSegment.silent.
\* len(segment) is the length of the list.
Audio(tag, k, ms) == [i \in 1..ms |-> << tag, k >>]
BeatAudio(ms) == [i \in 1..ms |-> << "beat", i >>]

\* The path arguments of the mixer: None, a path to no file, a clip file of
\* a length in milliseconds.
ClipPaths ==
  { [kind |-> "none"], [kind |-> "missing"],
    [kind |-> "file", ms |-> 2], [kind |-> "file", ms |-> 3] }

MaxClips == 3
MaxTrackMs == 4

\* `clip_path and Path(clip_path).exists()`
ClipExists(p) == p.kind = "file"

\* AudioSegment.from_file of the k-th path of the list.
from_file(paths, k) == Audio("rap", k, paths[k].ms)

\* segment * n
RECURSIVE Times(_, _)
Times(seg, n) == IF n <= 0 THEN << >> ELSE seg \o Times(seg, n - 1)

\* segment[:ms]
Slice(seg, ms) == SubSeq(seg, 1, IF ms < Len(seg) THEN ms ELSE Len(seg))

\* base.overlay(other): as long as base, other cut to it.
overlay(base, other) ==
  [i \in 1..Len(base) |->
     IF i <= Len(other) THEN << base[i], other[i] >> ELSE << base[i] >>]

\* The loop of lines 32-37 from the k-th path on.
RECURSIVE combine_rap(_, _)
combine_rap(paths, k) ==
  IF k > Len(paths) THEN << >>
  ELSE (IF ClipExists(paths[k]) THEN from_file(paths, k) ELSE << >>)
         \o combine_rap(paths, k + 1)

\* loops_needed without the + 1.
loops_needed_floor(total_duration_ms, beat_duration) ==
  total_duration_ms \div beat_duration

loops_needed(total_duration_ms, beat_duration) ==
  (total_duration_ms \div beat_duration) + 1

\* mix_rap_and_beat, up to the export: the beat as it is laid under the
\* vocals, and the mix. A beat file of no length makes `//` raise.
mix_rap_and_beat(rap_clips, beat_ms) ==
  LET combined_rap == combine_rap(rap_clips, 1)
      total_duration_ms == Len(combined_rap)
      beat == BeatAudio(beat_ms)
      beat_duration == Len(beat)
  IN  IF total_duration_ms = 0
      THEN [raised |-> "ValueError: No valid rap clips provided"]
      ELSE IF beat_duration < total_duration_ms /\ beat_duration = 0
      THEN [raised |-> "ZeroDivisionError"]
      ELSE LET looped ==
                 IF beat_duration < total_duration_ms
                 THEN Times(beat, loops_needed(total_duration_ms, beat_duration))
                 ELSE beat
               trimmed == Slice(looped, total_duration_ms)
           IN  [raised |-> "", beat |-> trimmed,
                mixed |-> overlay(trimmed, combined_rap)]

mix_rap_and_beat_call ==
  /\ Idle
  /\ \E cs \in SeqsUpTo(ClipPaths, MaxClips), ms \in 0..MaxTrackMs :
       Called("mix_rap_and_beat", [rap_clips |-> cs, beat_ms |-> ms],
              mix_rap_and_beat(cs, ms))

\* The loop of lines 93-98 from the i-th path on (i counts from 0 in the
\* source, from 1 here).
RECURSIVE concatenate_from(_, _, _)
concatenate_from(paths, i, gap_ms) ==
  IF i > Len(paths) THEN << >>
  ELSE (IF ClipExists(paths[i])
        THEN (IF i > 1 /\ gap_ms > 0 THEN Audio("silence", 0, gap_ms) ELSE << >>)
               \o from_file(paths, i)
        ELSE << >>)
         \o concatenate_from(paths, i + 1, gap_ms)

\* concatenate_audio_clips, up to the export.
concatenate_audio_clips(audio_paths, gap_ms) ==
  concatenate_from(audio_paths, 1, gap_ms)

MaxGapMs == 2

concatenate_audio_clips_call ==
  /\ Idle
  /\ \E cs \in SeqsUpTo(ClipPaths, MaxClips), gap \in 0..MaxGapMs :
       Called("concatenate_audio_clips", [audio_paths |-> cs, gap_ms |-> gap],
              concatenate_audio_clips(cs, gap))

\* Samples of a mono 16-bit file, in units of 4096: -8 is -32768.
FullScale == 8
SampleValues == { -8, 0, 1, 3 }
MaxSamples == 4
MaxBars == 3

Min(a, b) == IF a < b THEN a ELSE b
Max(a, b) == IF a > b THEN a ELSE b

\* floor(sqrt(q)) for 0 <= q, looked for below `cap`; cap from there on.
ISqrt(q, cap) ==
  IF q >= cap * cap THEN cap
  ELSE CHOOSE r \in 0..cap : r * r <= q /\ q < (r + 1) * (r + 1)

\* The value of a chunk without the clamps to 1.0.
bar_value_unclamped(chunk) ==
  LET squares == [i \in 1..Len(chunk) |-> chunk[i] * chunk[i]]
      q4 == (4 * 140625 * Sum(squares)) \div Len(chunk)
  IN  (ISqrt(q4, 2 * 3000) + 1) \div 2

\* round(min(1.0, min(1.0, rms / 32768.0) * 3.0), 3) of a chunk, in
\* thousandths: rms = sqrt(mean(chunk ** 2)), so 3000 * rms / FullScale is the
\* square root of 140625 * sum / len, and rounding to the nearest thousandth
\* is (floor(2 x) + 1) div 2.
bar_value(chunk) ==
  LET squares == [i \in 1..Len(chunk) |-> chunk[i] * chunk[i]]
      q4 == (4 * 140625 * Sum(squares)) \div Len(chunk)
      x == (ISqrt(q4, 2 * 3000) + 1) \div 2
  IN  Min(1000, x)

\* generate_waveform_data on the samples of the file, values in thousandths.
generate_waveform_data(samples, num_bars) ==
  IF Len(samples) = 0 THEN [i \in 1..num_bars |-> 0]
  ELSE LET chunk_size == Max(1, Len(samples) \div num_bars)
           amplitude(i) ==
             LET start == i * chunk_size
                 end == Min(start + chunk_size, Len(samples))
                 chunk == SubSeq(samples, start + 1, end)
             IN  IF Len(chunk) > 0 THEN bar_value(chunk) ELSE 0
       IN  [k \in 1..num_bars |-> amplitude(k - 1)]

generate_waveform_data_call ==
  /\ Idle
  /\ \E ss \in SeqsUpTo(SampleValues, MaxSamples), n \in 1..MaxBars :
       Called("generate_waveform_data", [samples |-> ss, num_bars |-> n],
              generate_waveform_data(ss, n))

\* ---- lyric_aligner.py

\* Times are in hundredths of a second, the resolution of round(x, 2).

\* Lyrics: the empty string, a string of blanks, or lines of words.
NoLyrics == [empty |-> TRUE, lines |-> << >>]
BlankLyrics == [empty |-> FALSE, lines |-> << >>]
TwoLines ==
  [empty |-> FALSE, lines |-> << << "mic", "check" >>, << "one", "two" >> >>]

\* What ForceAlign(...).inference() gives for TwoLines on a clip of 3.00 s:
\* the four words, the last of them ending at 2.00 s.
AlignedWords ==
  << [word |-> "mic", time_start |-> 10, time_end |-> 40],
     [word |-> "check", time_start |-> 50, time_end |-> 90],
     [word |-> "one", time_start |-> 120, time_end |-> 150],
     [word |-> "two", time_start |-> 160, time_end |-> 200] >>

ClipSeconds == 300

\* One (audio_path, verse_lyrics) pair of the zip, with what the alignment
\* engine does on it: not importable ("unavailable") or a list of words.
AlignVerses ==
  [ audio : { [kind |-> "none"], [kind |-> "missing"],
              [kind |-> "file", dur |-> ClipSeconds] },
    lyrics : { NoLyrics, BlankLyrics, TwoLines },
    engine : { "unavailable", "words" } ]

MaxVerses == 3

\* round(num / den, 2) in hundredths, for num >= 0 and den > 0: the nearest
\* whole number, the even one at a half.
Round2(num, den) ==
  LET q == num \div den
      r2 == 2 * (num % den)
  IN  IF r2 < den THEN q
      ELSE IF r2 > den THEN q + 1
      ELSE IF q % 2 = 0 THEN q ELSE q + 1

Line(text, start, end, fighter) ==
  [text |-> text, start |-> start, end |-> end, fighter |-> fighter]

\* _estimate_line_timing: the clip's length divided evenly over the lines.
estimate_line_timing(duration, lines, fighter) ==
  [i \in 1..Len(lines) |->
     Line(lines[i], Round2((i - 1) * duration, Len(lines)),
          Round2(i * duration, Len(lines)), fighter)]

\* The inner loop of _group_words_into_lines (lines 108-125) from word i on
\* (counted from 1): the line's times and the next word_index.
RECURSIVE scan_words(_, _, _, _)
scan_words(words, line_words, i, acc) ==
  IF i > Len(words) THEN acc
  ELSE LET hit == \E k \in 1..Len(line_words) : line_words[k] = words[i].word
           now == IF hit
                  THEN [line_start |-> IF acc.line_start = None
                                       THEN Some(words[i].time_start)
                                       ELSE acc.line_start,
                        line_end |-> Some(words[i].time_end),
                        matched_words |-> acc.matched_words + 1,
                        word_index |-> i + 1]
                  ELSE acc
       IN  IF 2 * now.matched_words >= Len(line_words) THEN now
           ELSE scan_words(words, line_words, i + 1, now)

\* _group_words_into_lines from line n on.
RECURSIVE group_from(_, _, _, _, _, _)
group_from(words, lines, fighter, n, word_index, result) ==
  IF n > Len(lines) THEN result
  ELSE LET found == scan_words(words, lines[n], word_index,
                      [line_start |-> None, line_end |-> None,
                       matched_words |-> 0, word_index |-> word_index])
           line_start ==
             IF found.line_start # None THEN found.line_start[1]
             ELSE IF result # << >> THEN result[Len(result)].end ELSE 0
           line_end ==
             IF found.line_start # None THEN found.line_end[1]
             ELSE line_start + 200
       IN  group_from(words, lines, fighter, n + 1, found.word_index,
             Append(result, Line(lines[n], Round2(line_start, 1),
                                 Round2(line_end, 1), fighter)))

group_words_into_lines(words, lines, fighter) ==
  group_from(words, lines, fighter, 1, 1, << >>)

\* align_lyrics_to_audio
align_lyrics_to_audio(v, fighter) ==
  IF v.audio.kind # "file" THEN << >>
  ELSE IF v.lyrics.lines = << >> THEN << >>
  ELSE IF v.engine = "unavailable"
  THEN estimate_line_timing(v.audio.dur, v.lyrics.lines, fighter)
  ELSE group_words_into_lines(AlignedWords, v.lyrics.lines, fighter)

\* Lines 217-218: the offset of the next verse.
next_offset(cumulative_offset, v, shifted) ==
  IF shifted # << >> THEN shifted[Len(shifted)].end ELSE cumulative_offset

\* align_battle_verses from the i-th pair on. `offsets` records, for each
\* pair, the cumulative_offset the loop held when it came to it.
RECURSIVE align_from(_, _, _, _)
align_from(vs, fighter_order, i, acc) ==
  IF i > Min(Len(vs), Len(fighter_order)) THEN acc
  ELSE LET v == vs[i]
           seen == [acc EXCEPT !.offsets = Append(@, acc.cumulative_offset)]
       IN  IF v.audio.kind = "none" \/ v.lyrics.empty
           THEN align_from(vs, fighter_order, i + 1, seen)
           ELSE LET verse_lines == align_lyrics_to_audio(v, fighter_order[i])
                    shifted ==
                      [n \in 1..Len(verse_lines) |->
                         [verse_lines[n] EXCEPT
                            !.start = @ + acc.cumulative_offset,
                            !.end = @ + acc.cumulative_offset]]
                IN  align_from(vs, fighter_order, i + 1,
                      [lines |-> acc.lines \o shifted,
                       verse_breaks |-> Append(acc.verse_breaks, Len(acc.lines)),
                       offsets |-> seen.offsets,
                       cumulative_offset |->
                         next_offset(acc.cumulative_offset, v, shifted)])

align_battle_verses(vs) ==
  align_from(vs, SubSeq(<< "A", "B", "A", "B" >>, 1, Min(4, Len(vs))), 1,
    [lines |-> << >>, verse_breaks |-> << >>, offsets |-> << >>,
     cumulative_offset |-> 0])

align_battle_verses_call ==
  /\ Idle
  /\ \E vs \in SeqsUpTo(AlignVerses, MaxVerses) :
       Called("align_battle_verses", vs, align_battle_verses(vs))

\* ---- script_parser.py

\* BattleSegment(index, speaker, verses, raw_text, is_conclusion). A text of
\* several lines is the list of its lines and the "\n" between them.
BattleSegment(index, speaker, verses, raw_text, is_conclusion) ==
  [index |-> index, speaker |-> speaker, verses |-> verses,
   raw_text |-> raw_text, is_conclusion |-> is_conclusion]

\* The segment parse_rap_script makes of one turn at position i (from 0).
Turn(i, speaker) ==
  BattleSegment(i, speaker, << "bars" >>, << "bars" >>, speaker = "Both")

Speakers == { "Person A", "Person B", "Both" }

MaxSegments == 6

\* The lists of turns parse_rap_script can return: any speakers, in any order.
SegmentLists ==
  UNION { { [i \in 1..n |-> Turn(i - 1, sp[i])] : sp \in [1..n -> Speakers] }
          : n \in 0..MaxSegments }

\* The segment appended at position idx (from 0) when the list is short.
Placeholder(idx, expected) ==
  BattleSegment(idx, expected[idx + 1], << "..." >>, << "..." >>,
                idx = Len(expected) - 1)

\* The padding stopped one segment early.
RECURSIVE pad_short(_, _)
pad_short(result, expected) ==
  IF Len(result) >= Len(expected) - 1 THEN result
  ELSE pad_short(Append(result, Placeholder(Len(result), expected)), expected)

\* `while len(result) < n: result.append(...)` as far as Len(expected).
RECURSIVE pad(_, _)
pad(result, expected) ==
  IF Len(result) >= Len(expected) THEN result
  ELSE pad(Append(result, Placeholder(Len(result), expected)), expected)

\* ensure_three_segments
ensure_three_segments(segments) ==
  IF Len(segments) >= 3
  THEN LET conclusion ==
             IF segments[3].speaker = "Both" THEN segments[3]
             ELSE BattleSegment(2, "Both", segments[3].verses,
                                segments[3].raw_text, TRUE)
       IN  Append(SubSeq(segments, 1, 2),
                  [conclusion EXCEPT !.index = 2, !.is_conclusion = TRUE])
  ELSE pad(segments, << "Person A", "Person B", "Both" >>)

RECURSIVE Flatten(_)
Flatten(ss) == IF ss = << >> THEN << >> ELSE Head(ss) \o Flatten(Tail(ss))

\* "\n".join(parts), a separator kept as its own element.
RECURSIVE JoinLines(_)
JoinLines(parts) ==
  IF parts = << >> THEN << >>
  ELSE IF Len(parts) = 1 THEN << parts[1] >>
  ELSE << parts[1], "\n" >> \o JoinLines(Tail(parts))

\* ensure_five_segments
ensure_five_segments(segments) ==
  IF Len(segments) = 5 THEN segments
  ELSE IF Len(segments) < 5
  THEN pad(segments,
           << "Person A", "Person B", "Person A", "Person B", "Both" >>)
  ELSE LET rest == SubSeq(segments, 5, Len(segments))
       IN  Append(SubSeq(segments, 1, 4),
             BattleSegment(4, "Both",
               Flatten([i \in 1..Len(rest) |-> rest[i].verses]),
               JoinLines([i \in 1..Len(rest) |-> rest[i].raw_text]),
               TRUE))

ensure_three_segments_call ==
  /\ Idle
  /\ \E ss \in SegmentLists :
       Called("ensure_three_segments", ss, ensure_three_segments(ss))

ensure_five_segments_call ==
  /\ Idle
  /\ \E ss \in SegmentLists :
       Called("ensure_five_segments", ss, ensure_five_segments(ss))

\* The lines of a script. A line is blank, a marker (the three regular
\* expressions of check_speaker; "[Both]" and "[Finale]" read as
\* "[Conclusion]" does), a bare line (letters and blanks only, at most 50
\* characters, not one of the skip words: what _detect_speaker_names takes
\* for a name), or any other line.
ScriptLines ==
  { [looks |-> "blank", text |-> ""],
    [looks |-> "marker", text |-> "[Person A]"],
    [looks |-> "marker", text |-> "[Person B]"],
    [looks |-> "marker", text |-> "[Conclusion]"],
    [looks |-> "bare", text |-> "Yeah"],
    [looks |-> "bare", text |-> "I am the best"],
    [looks |-> "other", text |-> "bars, one!"],
    [looks |-> "other", text |-> "bars, two!"] }

MaxLines == 4

\* The speaker the fixed expressions of check_speaker find in a line.
MarkerSpeaker(line) ==
  IF line.looks # "marker" THEN None
  ELSE IF line.text = "[Conclusion]" THEN Some("Both")
  ELSE IF line.text = "[Person A]" THEN Some("Person A")
  ELSE Some("Person B")

\* The name _detect_speaker_names reads in a line: the line without brackets
\* and colon, if the line is letters and blanks and the name no skip word.
DetectedName(line) ==
  IF line.looks = "bare" THEN Some(line.text)
  ELSE IF line.looks = "marker" /\ line.text = "[Person A]" THEN Some("Person A")
  ELSE IF line.looks = "marker" /\ line.text = "[Person B]" THEN Some("Person B")
  ELSE None

\* _detect_speaker_names from line i on: the first two different names.
RECURSIVE detect_speaker_names(_, _, _)
detect_speaker_names(lines, i, potential_speakers) ==
  IF i > Len(lines) \/ Len(potential_speakers) >= 2 THEN potential_speakers
  ELSE LET name == DetectedName(lines[i])
       IN  detect_speaker_names(lines, i + 1,
             IF name # None /\ name[1] \notin Range(potential_speakers)
             THEN Append(potential_speakers, name[1])
             ELSE potential_speakers)

\* check_speaker: the fixed markers, then the two names.
check_speaker(line, speaker_a_name, speaker_b_name) ==
  IF MarkerSpeaker(line) # None THEN MarkerSpeaker(line)
  ELSE IF speaker_a_name # "" /\ DetectedName(line) = Some(speaker_a_name)
  THEN Some("Person A")
  ELSE IF speaker_b_name # "" /\ DetectedName(line) = Some(speaker_b_name)
  THEN Some("Person B")
  ELSE None

\* save_current_segment
save_current_segment(p) ==
  [p EXCEPT
     !.segments =
       IF p.current_speaker # None /\ p.current_verses # << >>
       THEN Append(@, BattleSegment(Len(@), p.current_speaker[1],
                        p.current_verses, JoinLines(p.current_verses),
                        p.current_speaker[1] = "Both"))
       ELSE @,
     !.current_verses = << >>]

\* The loop of lines 118-132 from line i on.
RECURSIVE parse_from(_, _, _, _, _)
parse_from(lines, i, speaker_a_name, speaker_b_name, p) ==
  IF i > Len(lines) THEN p
  ELSE IF lines[i].looks = "blank"
  THEN parse_from(lines, i + 1, speaker_a_name, speaker_b_name, p)
  ELSE LET new_speaker == check_speaker(lines[i], speaker_a_name, speaker_b_name)
       IN  parse_from(lines, i + 1, speaker_a_name, speaker_b_name,
             IF new_speaker # None
             THEN [save_current_segment(p) EXCEPT !.current_speaker = new_speaker]
             ELSE IF p.current_speaker # None
             THEN [p EXCEPT !.current_verses = Append(@, lines[i].text)]
             ELSE p)

\* script.strip().split("\n"): the lines without the blank ones at either end.
RECURSIVE StripLines(_)
StripLines(lines) ==
  IF lines = << >> THEN << >>
  ELSE IF Head(lines).looks = "blank" THEN StripLines(Tail(lines))
  ELSE IF lines[Len(lines)].looks = "blank"
  THEN StripLines(SubSeq(lines, 1, Len(lines) - 1))
  ELSE lines

\* parse_rap_script
parse_rap_script(script, speaker_a_name, speaker_b_name) ==
  LET lines == StripLines(script)
      detected_names ==
        IF speaker_a_name = "" \/ speaker_b_name = ""
        THEN detect_speaker_names(lines, 1, << >>) ELSE << >>
      a_name == IF speaker_a_name = "" /\ Len(detected_names) > 0
                THEN detected_names[1] ELSE speaker_a_name
      b_name == IF speaker_b_name = "" /\ Len(detected_names) > 1
                THEN detected_names[2] ELSE speaker_b_name
      segments ==
        save_current_segment(
          parse_from(lines, 1, a_name, b_name,
            [segments |-> << >>, current_speaker |-> None,
             current_verses |-> << >>])).segments
  IN  IF segments = << >> /\ lines # << >>
      THEN << BattleSegment(0, "Person A",
                [i \in 1..Len(lines) |-> lines[i].text],
                JoinLines([i \in 1..Len(lines) |-> lines[i].text]), FALSE) >>
      ELSE segments

parse_rap_script_call ==
  /\ Idle
  /\ \E script \in SeqsUpTo(ScriptLines, MaxLines) :
       Called("parse_rap_script",
              [script |-> script, speaker_a_name |-> "", speaker_b_name |-> ""],
              parse_rap_script(script, "", ""))

\* A string of n characters c, as the list of its characters.
Chars(c, n) == [i \in 1..n |-> c]

\* " ".join(verses)
RECURSIVE JoinWords(_)
JoinWords(verses) ==
  IF verses = << >> THEN << >>
  ELSE IF Len(verses) = 1 THEN verses[1]
  ELSE verses[1] \o << " " >> \o JoinWords(Tail(verses))

SummaryLimit == 200

\* A summary that is never cut.
verse_summary_whole(segment) == JoinWords(segment.verses)

\* BattleSegment.verse_summary
verse_summary(segment) ==
  LET combined == JoinWords(segment.verses)
  IN  IF Len(combined) > SummaryLimit
      THEN SubSeq(combined, 1, SummaryLimit) \o Chars(".", 3)
      ELSE combined

\* The segments given to create_storyboard_shots: a short verse, a verse of
\* exactly 200 characters, and one of two lines of 120 characters.
ShotSegments ==
  { BattleSegment(0, "Person A", << Chars("y", 2) >>, << Chars("y", 2) >>, FALSE),
    BattleSegment(0, "Person B", << Chars("z", SummaryLimit) >>,
                  << Chars("z", SummaryLimit) >>, FALSE),
    BattleSegment(0, "Person A", << Chars("x", 120), Chars("w", 120) >>,
                  JoinLines(<< Chars("x", 120), Chars("w", 120) >>), FALSE) }

MaxShotSegments == 4

\* StoryboardShot(...); the camera direction is the table's entry for the index.
StoryboardShot(index, type, speaker, reaction, verse_index, audio, text) ==
  [index |-> index, shot_type |-> type,
   primary_speaker |-> speaker, show_reaction |-> reaction,
   verse_index |-> verse_index, camera_direction |-> index,
   audio_source |-> audio, verse_text |-> text]

\* verse_N_text
verse_text(segments, k) ==
  IF Len(segments) > k THEN verse_summary(segments[k + 1]) ELSE << >>

\* create_storyboard_shots
create_storyboard_shots(segments) ==
  << StoryboardShot(0, "opening", "Both", FALSE, None, "intro", << >>),
     StoryboardShot(1, "verse", "Person A", FALSE, Some(0), "verse_0",
                    verse_text(segments, 0)),
     StoryboardShot(2, "verse", "Person B", FALSE, Some(1), "verse_1",
                    verse_text(segments, 1)),
     StoryboardShot(3, "reaction", "Person A", TRUE, Some(2), "verse_2",
                    verse_text(segments, 2)),
     StoryboardShot(4, "reaction", "Person B", TRUE, Some(3), "verse_3",
                    verse_text(segments, 3)),
     StoryboardShot(5, "closing", "Both", FALSE, None, "outro", << >>) >>

create_storyboard_shots_call ==
  /\ Idle
  /\ \E ss \in SeqsUpTo(ShotSegments, MaxShotSegments) :
       Called("create_storyboard_shots", ss, create_storyboard_shots(ss))

\* ------------------------------------------------- storyboard_pipeline.py

\* A file an adapter wrote, or a clip handed in: its kind and its position.
File(kind, i) == [kind |-> kind, i |-> i]
Files(kind, n) == [i \in 1..n |-> File(kind, i - 1)]

\* The calls one adapter gets in a pipeline run are numbered from 0; `fail`
\* is the number of the first call that returns no artifact, and a number no
\* call has means that every call succeeds.
MaxAdapterCalls == 6
AdapterFailures == 0..MaxAdapterCalls

\* generate_all_storyboards / edit_all_storyboards: one image per segment, in
\* order, and the list so far at the first failure.
generate_all_storyboards(segments, fail) ==
  Files("image", Min(Len(segments), fail))

\* generate_all_videos: one video per image, in order, and the list so far at
\* the first failure.
generate_all_videos(image_paths, fail) ==
  Files("video", Min(Len(image_paths), fail))

\* upload_files_for_lipsync: a URL per file, or fewer when an upload fails.
upload_files_for_lipsync(video_paths, audio_paths, ok) ==
  IF ok THEN [video_urls |-> Files("video_url", Len(video_paths)),
              audio_urls |-> Files("audio_url", Len(audio_paths))]
  ELSE [video_urls |-> << >>, audio_urls |-> << >>]

\* lipsync_all_segments: one synced video per URL pair, the list so far at
\* the first failure, and none for lists of different lengths.
lipsync_all_segments(video_urls, audio_urls, ok) ==
  IF Len(video_urls) # Len(audio_urls) THEN << >>
  ELSE Files("lipsynced", IF ok THEN Len(video_urls) ELSE 0)

\* compose_with_audio_clips: the exported file, which is made of the videos
\* and the clips given, or None: for a number of videos other than 5, for a
\* number of clips other than 4, and when the media library raises.
compose_with_audio_clips(video_paths, audio_clips, ok) ==
  IF Len(video_paths) # 5 THEN None
  ELSE IF Len(audio_clips) # 4 THEN None
  ELSE IF ~ok THEN None
  ELSE Some([video_paths |-> video_paths, audio_clips |-> audio_clips])

PipelineResult(success, segments, images, videos, lipsynced, final_video) ==
  [success |-> success, segments |-> segments, storyboard_images |-> images,
   video_segments |-> videos, lipsynced_videos |-> lipsynced,
   final_video |-> final_video]

\* Step 4 of run_storyboard_pipeline: the videos that go to the composition.
lipsynced_videos(video_segments, audio_clips, lipsync) ==
  IF lipsync = "off" THEN video_segments
  ELSE LET videos_to_sync == SubSeq(video_segments, 1, Len(video_segments) - 1)
           up == upload_files_for_lipsync(videos_to_sync, audio_clips,
                                          lipsync # "upload_failed")
       IN  IF Len(up.video_urls) # Len(videos_to_sync)
                \/ Len(up.audio_urls) # Len(audio_clips)
             THEN video_segments
           ELSE LET synced_paths ==
                      lipsync_all_segments(up.video_urls, up.audio_urls,
                                           lipsync = "ok")
                IN  IF Len(synced_paths) = Len(videos_to_sync)
                      THEN Append(synced_paths,
                                  video_segments[Len(video_segments)])
                      ELSE video_segments

\* run_storyboard_pipeline, for the segments parse_rap_script returned.
run_storyboard_pipeline(a) ==
  IF Len(a.audio_clips) # (IF a.test_mode THEN 2 ELSE 4)
    THEN PipelineResult(FALSE, << >>, << >>, << >>, << >>, None)
  ELSE
    LET segments == IF a.test_mode THEN ensure_three_segments(a.parsed)
                    ELSE ensure_five_segments(a.parsed)
        images == generate_all_storyboards(segments, a.image_fail)
        videos == generate_all_videos(images, a.video_fail)
        synced == lipsynced_videos(videos, a.audio_clips, a.lipsync)
        final == compose_with_audio_clips(synced, a.audio_clips, a.compose_ok)
    IN  IF Len(images) # Len(segments)
          THEN PipelineResult(FALSE, segments, images, << >>, << >>, None)
        ELSE IF a.skip_video_generation
          THEN PipelineResult(TRUE, segments, images, << >>, << >>, None)
        ELSE IF Len(videos) # Len(segments)
          THEN PipelineResult(FALSE, segments, images, videos, << >>, None)
        ELSE PipelineResult(final # None, segments, images, videos, synced,
                            final)

\* The scripts of the pipelines, as parse_rap_script returns them: no turn,
\* four turns A B A B, and the four with a conclusion.
PipelineScripts ==
  { [i \in 1..n |-> Turn(i - 1, << "Person A", "Person B", "Person A",
                                   "Person B", "Both" >>[i])] : n \in {0, 4, 5} }

\* A pipeline is given up to this many audio clips.
MaxAudioClips == 4

StoryboardInputs ==
  [ test_mode : BOOL,
    audio_clips : { Files("verse", n) : n \in 1..MaxAudioClips },
    parsed : PipelineScripts,
    image_fail : AdapterFailures,
    skip_video_generation : BOOL,
    video_fail : AdapterFailures,
    lipsync : {"off", "upload_failed", "sync_failed", "ok"},
    compose_ok : BOOL ]

run_storyboard_pipeline_call ==
  /\ Idle
  /\ \E a \in StoryboardInputs :
       Called("run_storyboard_pipeline", a, run_storyboard_pipeline(a))

\* generate_6shot_videos: nothing for a number of images other than 6; else
\* one video per shot, in order, and the list so far at the first shot for
\* which no video comes back (for a verse shot: neither with lip sync nor,
\* after an Act-Two API error, without).
generate_6shot_videos(image_paths, fail) ==
  IF Len(image_paths) # 6 THEN << >>
  ELSE Files("video", Min(Len(image_paths), fail))

\* Lines 460-470 of run_6shot_pipeline: placeholders up to four segments.
RECURSIVE pad_to_four(_)
pad_to_four(segments) ==
  IF Len(segments) >= 4 THEN segments
  ELSE pad_to_four(Append(segments,
         BattleSegment(Len(segments),
                       << "Person A", "Person B", "Person A",
                          "Person B" >>[Len(segments) + 1],
                       << Chars(".", 3) >>, Chars(".", 3), FALSE)))

\* extract_beat_intro / extract_beat_outro: the extract, or None when the
\* beat cannot be read; not called without a beat path.
extract_beat(beat, name) == IF beat = "ok" THEN Some(File(name, 0)) ELSE None

SixShotPipelineResult(success, shots, images, videos, final_video) ==
  [success |-> success, shots |-> shots, storyboard_images |-> images,
   video_segments |-> videos, final_video |-> final_video]

\* run_6shot_pipeline, for the segments parse_rap_script returned. (The
\* environment reference image is optional and decides nothing here.)
run_6shot_pipeline(a) ==
  IF Len(a.audio_clips) # 4
    THEN SixShotPipelineResult(FALSE, << >>, << >>, << >>, None)
  ELSE
    LET segments == pad_to_four(a.parsed)
        shots == create_storyboard_shots(SubSeq(segments, 1, 4))
        images == Files("image", Min(Len(shots), a.image_fail))
        intro_audio == extract_beat(a.beat, "beat_intro")
        outro_audio == extract_beat(a.beat, "beat_outro")
        videos == generate_6shot_videos(images, a.video_fail)
        all_audio ==
          << IF Truthy(intro_audio) THEN intro_audio[1] ELSE a.audio_clips[1] >>
          \o a.audio_clips
          \o << IF Truthy(outro_audio) THEN outro_audio[1]
                ELSE a.audio_clips[Len(a.audio_clips)] >>
        final == compose_with_audio_clips(videos, all_audio, a.compose_ok)
    IN  IF Len(images) # Len(shots)
          THEN SixShotPipelineResult(FALSE, shots, images, << >>, None)
        ELSE IF Len(videos) # 6
          THEN SixShotPipelineResult(FALSE, shots, images, videos, None)
        ELSE SixShotPipelineResult(final # None, shots, images, videos, final)

\* The scripts given to run_6shot_pipeline: no turn, four turns, five turns.
SixShotScripts ==
  { [i \in 1..n |-> seg] : n \in {0, 4, 5}, seg \in ShotSegments }

SixShotInputs ==
  [ audio_clips : { Files("verse", n) : n \in 1..MaxAudioClips },
    parsed : SixShotScripts,
    beat : {"none", "unreadable", "ok"},
    image_fail : AdapterFailures,
    video_fail : AdapterFailures,
    compose_ok : BOOL ]

run_6shot_pipeline_call ==
  /\ Idle
  /\ \E a \in SixShotInputs :
       Called("run_6shot_pipeline", a, run_6shot_pipeline(a))

\* ---- main.py: handle_generate_all_audio ---------------------------------
\* The four verse numbers, and what a verse's future gives back:
\* generate_verse_audio returns (verse_num, audio_path, status), with
\* audio_path None when the synthesis failed, or the future raises.
Verses == 1..4
VerseOutcomes == {"ok", "none", "raise"}

\* as_completed yields the submitted futures in the order they finish: any
\* arrangement of the submitted verses.
Orders(S) == { o \in [1..Cardinality(S) -> S] : \A i, j \in DOMAIN o : o[i] = o[j] => i = j }

\* The loop over as_completed: a path that is not None is stored at index
\* v_num - 1 (slot v of a 1-based sequence), everything else only adds an error.
RECURSIVE collect_verses(_, _, _)
collect_verses(order, outcome, audio_paths) ==
  IF order = <<>> THEN audio_paths
  ELSE LET v_num == Head(order)
           stored == IF outcome[v_num] = "ok"
                       THEN [audio_paths EXCEPT ![v_num] = Some(File("verse", v_num))]
                       ELSE audio_paths
       IN collect_verses(Tail(order), outcome, stored)

\* What the combined file holds once ffmpeg has run over the list file, which
\* names the four paths in the order of audio_paths. When the try block
\* raises after combined_path was named (ffmpeg absent, the 60 s timeout of
\* subprocess.run, os.unlink), the file holds whatever was written until then:
\* "left" of the four verses, 0 for the empty temporary file.
Concatenated(audio_paths, left) == [i \in 1..left |-> audio_paths[i][1]]

AudioResult(audio_paths, combined, with_beat, status) ==
  [audio_paths |-> audio_paths, combined |-> combined, with_beat |-> with_beat, status |-> status]

\* Steps 3 to 5 of handle_generate_all_audio. a.tasks are the verses that have
\* lyrics and a voice reference (verse_tasks), a.order their completion order,
\* a.outcome what each future gives, a.ffmpeg how Step 4 goes ("ok", "fail"
\* for a non-zero return code, "early" for an exception before combined_path
\* is named, "raise" for one after it, with a.left verses written), a.beat
\* whether Step 1 produced a beat and a.mixed whether mix_vocals_with_beat
\* returned a path.
handle_generate_all_audio(a) ==
  LET audio_paths == collect_verses(a.order, a.outcome, [v \in Verses |-> None])
  IN IF \E v \in Verses : audio_paths[v] = None
       THEN AudioResult(audio_paths, None, None, "Partial generation")
     ELSE IF a.ffmpeg = "early"
       THEN AudioResult(audio_paths, None, None, "Error combining")
     ELSE IF a.ffmpeg = "raise"
       THEN AudioResult(audio_paths, Some(Concatenated(audio_paths, a.left)), None, "Error combining")
     ELSE IF a.ffmpeg = "fail"
       THEN AudioResult(audio_paths, None, None, "FFmpeg error")
     ELSE LET combined == Concatenated(audio_paths, 4)
          IN AudioResult(audio_paths, Some(combined),
                         IF a.beat /\ a.mixed THEN Some(combined) ELSE None,
                         "All audio generated")

FfmpegRuns ==
  [ffmpeg : {"ok"}, left : {4}, beat : BOOLEAN, mixed : BOOLEAN]
    \cup [ffmpeg : {"fail", "early"}, left : {0}, beat : {TRUE}, mixed : {FALSE}]
    \cup [ffmpeg : {"raise"}, left : 0..4, beat : {TRUE}, mixed : {FALSE}]

AudioInput(t, o, c, f) ==
  [tasks |-> t, order |-> o, outcome |-> c, ffmpeg |-> f.ffmpeg, left |-> f.left, beat |-> f.beat, mixed |-> f.mixed]

handle_generate_all_audio_call ==
  /\ Idle
  /\ \E t \in SUBSET Verses : \E o \in Orders(t), c \in [t -> VerseOutcomes], f \in FfmpegRuns :
       Called("handle_generate_all_audio", AudioInput(t, o, c, f), handle_generate_all_audio(AudioInput(t, o, c, f)))

NextCalls ==
  \/ snap_bpm_to_common_call
  \/ detect_bpm_from_multiple_call
  \/ mix_rap_and_beat_call
  \/ concatenate_audio_clips_call
  \/ generate_waveform_data_call
  \/ align_battle_verses_call
  \/ ensure_three_segments_call
  \/ ensure_five_segments_call
  \/ parse_rap_script_call
  \/ create_storyboard_shots_call
  \/ run_storyboard_pipeline_call
  \/ run_6shot_pipeline_call
  \/ handle_generate_all_audio_call

SpecCalls == Init /\ [][NextCalls]_vars

\* ---- runway_api.py: poll_task_completion, sync_labs_api.py:
\* ---- poll_generation_completion ----------------------------------------
\* Both loops run in the caller's thread: read the clock, ask the service for
\* the job, return on anything but a waiting status, otherwise sleep and go
\* round. Time is in seconds since start_time; `call` holds the position of
\* the one poll that is running.
Pollers == {"poll_task_completion", "poll_generation_completion"}

\* The defaults of max_wait and poll_interval; no caller passes its own.
max_wait(fn) == IF fn = "poll_task_completion" THEN 300 ELSE 600
poll_interval(fn) == IF fn = "poll_task_completion" THEN 5 ELSE 10

\* requests.get(..., timeout=30): a request answers or raises within this.
RequestTimeout == 30
RequestSeconds == {0, 1, RequestTimeout}

\* What one request can give: an exception, a status code other than 200, or
\* a JSON body with a status (the key missing reads as "UNKNOWN"; "THROTTLED"
\* and "CANCELED" stand for every status the code does not name) and with or
\* without an output (output[0] of Runway, outputUrl of Sync Labs).
SuccessStatus(fn) == IF fn = "poll_task_completion" THEN "SUCCEEDED" ELSE "COMPLETED"
FailureStatuses(fn) == IF fn = "poll_task_completion" THEN {"FAILED"} ELSE {"FAILED", "REJECTED"}
\* A loop that also waits on the statuses it does not name.
WaitingStatuses_lenient(fn) == IF fn = "poll_task_completion" THEN {"PENDING", "RUNNING", "UNKNOWN", "THROTTLED", "CANCELED"} ELSE {"PENDING", "PROCESSING", "UNKNOWN", "THROTTLED", "CANCELED"}
WaitingStatuses(fn) == IF fn = "poll_task_completion" THEN {"PENDING", "RUNNING"} ELSE {"PENDING", "PROCESSING"}
OtherStatuses == {"UNKNOWN", "THROTTLED", "CANCELED"}
JobStatuses(fn) == {SuccessStatus(fn)} \cup FailureStatuses(fn) \cup WaitingStatuses(fn) \cup OtherStatuses
Responses(fn) ==
  {[kind |-> "raise"], [kind |-> "http_error"]}
    \cup [kind : {"json"}, status : JobStatuses(fn), output : {None, Some("url")}]

PollResult(url, message) == [next |-> "return", url |-> url, message |-> message]
PollAgain == [next |-> "sleep"]

\* The body of the loop of poll_task_completion for one response.
poll_task_completion(resp) ==
  IF resp.kind = "raise" THEN PollResult(None, "Poll error")
  ELSE IF resp.kind = "http_error" THEN PollResult(None, "Poll Error")
  ELSE IF resp.status = "SUCCEEDED"
    THEN IF resp.output # None
           THEN PollResult(resp.output, "Task completed successfully")
           ELSE PollResult(None, "Task completed but no output found")
  ELSE IF resp.status = "FAILED" THEN PollResult(None, "Task failed")
  ELSE IF resp.status \in WaitingStatuses("poll_task_completion") THEN PollAgain
  ELSE PollResult(None, "Unknown status")

\* The body of the loop of poll_generation_completion for one response;
\* get_generation_status turns an exception or a status code other than 200
\* into (None, message).
poll_generation_completion(resp) ==
  IF resp.kind = "raise" THEN PollResult(None, "Error")
  ELSE IF resp.kind = "http_error" THEN PollResult(None, "API Error")
  ELSE IF resp.status = "COMPLETED"
    THEN IF resp.output # None
           THEN PollResult(resp.output, "Lip sync completed successfully")
           ELSE PollResult(None, "Completed but no output URL")
  ELSE IF resp.status = "FAILED" THEN PollResult(None, "Lip sync failed")
  ELSE IF resp.status = "REJECTED" THEN PollResult(None, "Lip sync job was rejected")
  ELSE IF resp.status \in WaitingStatuses("poll_generation_completion") THEN PollAgain
  ELSE PollResult(None, "Unknown status")

Polling(pc) == call.fn \in Pollers /\ call.pc = pc
Poll(fn, pc, elapsed, got, out) ==
  /\ call' = [fn |-> fn, pc |-> pc, elapsed |-> elapsed, got |-> got, out |-> out]
  /\ UNCHANGED << battles, queues, state, fifo, cfg, task, pushed, streams >>

\* start_time = time.time()
PollStart(fn) ==
  /\ Idle
  /\ Poll(fn, "test", 0, None, None)

\* while time.time() - start_time < max_wait: ... and the return after the loop.
PollTest ==
  /\ Polling("test")
  /\ IF call.elapsed < max_wait(call.fn)
       THEN Poll(call.fn, "request", call.elapsed, call.got, None)
       ELSE Poll(call.fn, "returned", call.elapsed, call.got, PollResult(None, "Timeout"))

\* requests.get with its timeout: some seconds pass and a response is there.
PollRequest ==
  /\ Polling("request")
  /\ \E d \in RequestSeconds, resp \in Responses(call.fn) :
       Poll(call.fn, "handle", call.elapsed + d, Some(resp), None)

\* The if chain over the response.
PollHandle ==
  /\ Polling("handle")
  /\ LET r == IF call.fn = "poll_task_completion"
                THEN poll_task_completion(call.got[1])
                ELSE poll_generation_completion(call.got[1])
     IN IF r.next = "sleep"
          THEN Poll(call.fn, "sleep", call.elapsed, call.got, None)
          ELSE Poll(call.fn, "returned", call.elapsed, call.got, r)

\* time.sleep(poll_interval); continue
PollSleep ==
  /\ Polling("sleep")
  /\ Poll(call.fn, "test", call.elapsed + poll_interval(call.fn), call.got, None)

PollStep == PollTest \/ PollRequest \/ PollHandle \/ PollSleep
NextPoll == (\E fn \in Pollers : PollStart(fn)) \/ PollStep

\* The loop is straight-line code in one thread: the clock read, the request
\* (bounded by its timeout) and the sleep each come back, so a step that can
\* be taken is taken.
SpecPoll == Init /\ [][NextPoll]_vars /\ WF_vars(PollStep)

\* C21: snap_bpm_to_common(x) is, for every x, an entry of the list of common
\* tempos at the least absolute distance from x, and at a tie (x halfway
\* between two entries) the lower, first-listed one. These three conditions
\* leave one entry only, so the result is a function of x alone.
C21_SnapIsNearestLowerAtTie ==
  call.fn = "snap_bpm_to_common" =>
    LET x == call.arg
        r == call.out
    IN  /\ r \in Range(common_bpms)
        /\ \A m \in Range(common_bpms) :
             /\ Abs(r * 10 - x) <= Abs(m * 10 - x)
             /\ Abs(r * 10 - x) = Abs(m * 10 - x) => r <= m

\* 97.5 is halfway between 95 and 100 and is snapped to 95.
C21_Witness ==
  call.fn = "snap_bpm_to_common" /\ call.arg = 975 /\ call.out = 95

\* The detections that succeeded: the audio files librosa could analyse.
Succeeded(p) == p.kind = "audio"

\* C22: detect_bpm_from_multiple returns the arithmetic mean of the
\* detections of the files whose detection succeeded; a missing file and a
\* file whose read or analysis fails contribute nothing; 120.0 when the list
\* is empty or every file fails.
C22_MeanOfSuccessfulDetections ==
  call.fn = "detect_bpm_from_multiple" =>
    LET good == SelectSeq(call.arg, Succeeded)
        bpms == [i \in 1..Len(good) |-> good[i].bpm]
    IN  IF good = << >>
        THEN SameNumber(call.out, Quotient(DefaultBpm10, 1))
        ELSE SameNumber(call.out, Quotient(Sum(bpms), Len(bpms)))

\* The clips of the list that exist, and the sum of their lengths.
ExistingMs(paths) ==
  LET found == SelectSeq(paths, ClipExists)
  IN  Sum([i \in 1..Len(found) |-> found[i].ms])

IsPrefix(s, t) == Len(s) <= Len(t) /\ s = SubSeq(t, 1, Len(s))

\* ceil(a / b) for b > 0
CeilDiv(a, b) == (a + b - 1) \div b

C24_MissingClipsLeaveNoTrace ==
  call.fn = "concatenate_audio_clips" =>
    LET n == Len(SelectSeq(call.arg.audio_paths, ClipExists))
    IN  /\ Len(call.out) =
             ExistingMs(call.arg.audio_paths)
               + call.arg.gap_ms * (IF n > 0 THEN n - 1 ELSE 0)
        /\ call.out # << >> => call.out[1][1] # "silence"

\* C25: generate_waveform_data(path, n) returns exactly n values for n >= 1
\* and any number of samples (none, fewer than n, more than n), each of them
\* in [0.0, 1.0].
C25_WaveformHasNBarsInUnitRange ==
  call.fn = "generate_waveform_data" =>
    /\ Len(call.out) = call.arg.num_bars
    /\ \A i \in 1..Len(call.out) : 0 <= call.out[i] /\ call.out[i] <= 1000

\* Fewer samples than bars, with a full-scale sample: a bar at 1.0 and bars
\* after the end of the samples.
C25_Witness ==
  /\ call.fn = "generate_waveform_data"
  /\ Len(call.arg.samples) \in 1..(call.arg.num_bars - 1)
  /\ \E i \in 1..Len(call.out) : call.out[i] = 1000
  /\ call.out[Len(call.out)] = 0

\* The length of a clip of the list as it is in the concatenated audio.
ClipDuration(v) == IF v.audio.kind = "file" THEN v.audio.dur ELSE 0

\* The lines align_lyrics_to_audio gets from a pair, if the loop asks.
YieldsLines(v) ==
  v.audio.kind # "none" /\ ~v.lyrics.empty
    /\ align_lyrics_to_audio(v, "A") # << >>

\* C26: in align_battle_verses the offset added to the line timings of clip k
\* is the sum of the durations of clips 0..k-1, on either alignment path and
\* also after a clip that yielded no lines.
C26_OffsetIsDurationOfPrecedingClips ==
  call.fn = "align_battle_verses" =>
    \A k \in 1..Len(call.arg) :
      YieldsLines(call.arg[k]) =>
        call.out.offsets[k] =
          Sum([j \in 1..(k - 1) |-> ClipDuration(call.arg[j])])

\* The number of segments each of the two functions is to return.
Wanted(fn) == IF fn = "ensure_three_segments" THEN 3 ELSE 5

EnsureCalled == call.fn \in {"ensure_three_segments", "ensure_five_segments"}

\* C27: ensure_five_segments returns exactly 5 segments and
\* ensure_three_segments exactly 3, for an empty, a shorter, an equal and a
\* longer list; for a shorter list the result starts with the segments of
\* the list, unchanged and in order, and goes on with placeholders whose
\* verses are ["..."].
C27_EnsureReturnsExactCount ==
  EnsureCalled =>
    /\ Len(call.out) = Wanted(call.fn)
    /\ Len(call.arg) < Wanted(call.fn) =>
         /\ SubSeq(call.out, 1, Len(call.arg)) = call.arg
         /\ \A i \in (Len(call.arg) + 1)..Wanted(call.fn) :
              call.out[i].verses = << "..." >>

\* Three segments given to ensure_five_segments: two placeholders follow.
C27_Witness ==
  /\ call.fn = "ensure_five_segments"
  /\ Len(call.arg) = 3
  /\ Len(call.out) = 5
  /\ call.out[3] = call.arg[3]
  /\ call.out[4].verses = << "..." >> /\ call.out[5].verses = << "..." >>

\* C28: for every list, the last segment of the result of either function
\* has speaker Both and is a conclusion, and no segment before the last is a
\* conclusion.
C28_ConclusionIsLastOnly ==
  EnsureCalled =>
    LET n == Len(call.out)
    IN  /\ call.out[n].speaker = "Both"
        /\ call.out[n].is_conclusion
        /\ \A i \in 1..(n - 1) : ~call.out[i].is_conclusion

\* The lines of a script that are neither blank nor one of the markers, each
\* with the speaker of the nearest marker before it (None before the first).
RECURSIVE OwnedLines(_, _)
OwnedLines(lines, owner) ==
  IF lines = << >> THEN << >>
  ELSE LET l == Head(lines)
       IN  IF l.looks = "blank" THEN OwnedLines(Tail(lines), owner)
           ELSE IF l.looks = "marker"
           THEN OwnedLines(Tail(lines), MarkerSpeaker(l))
           ELSE << << owner, l.text >> >> \o OwnedLines(Tail(lines), owner)

\* The verse lines of the segments returned, each with its segment's speaker.
SegmentLines(segments) ==
  Flatten([k \in 1..Len(segments) |->
             [n \in 1..Len(segments[k].verses) |->
                << Some(segments[k].speaker), segments[k].verses[n] >>]])

NonBlank(l) == l.looks # "blank"
IsMarker(l) == l.looks = "marker"

\* C29: parse_rap_script without fighter names, on a script whose first
\* non-blank line is a marker, keeps every other non-blank line: the verse
\* lists of the segments, one after another, are the non-blank lines that are
\* no markers, in order, each in the segment of the nearest marker before it;
\* a (non-blank) script with no marker yields one segment holding the whole
\* script.
C29_ParseKeepsEveryVerseLine ==
  call.fn = "parse_rap_script" =>
    LET shown == SelectSeq(call.arg.script, NonBlank)
    IN  /\ (shown # << >> /\ IsMarker(shown[1])) =>
             SegmentLines(call.out) = OwnedLines(call.arg.script, None)
        /\ (shown # << >> /\ SelectSeq(shown, IsMarker) = << >>) =>
             /\ Len(call.out) = 1
             /\ SelectSeq(call.out[1].verses, LAMBDA v : v # "")
                  = [i \in 1..Len(shown) |-> shown[i].text]

\* Six shots numbered 0..5, Opening first and Closing last without a verse,
\* shots 1..4 on verses 0..3, the other fighter shown reacting in 3 and 4.
SixShots(shots) ==
  /\ Len(shots) = 6
  /\ \A i \in 1..6 : shots[i].index = i - 1
  /\ shots[1].shot_type = "opening" /\ shots[1].verse_index = None
  /\ shots[6].shot_type = "closing" /\ shots[6].verse_index = None
  /\ \A k \in 1..4 : shots[k + 1].verse_index = Some(k - 1)
  /\ \A i \in 1..6 : shots[i].show_reaction = (i - 1 \in {3, 4})

Entered(b, s) == \E i \in 1..Len(pushed[b]) : pushed[b][i].stage = s

\* Run b has published the update that follows the mix (lines 436-441).
PastMix(b) ==
  \E i \in 1..Len(pushed[b]) : pushed[b][i].message = "Audio mix complete"

\* Run b has gone through the gather of the base videos, or skipped it: it
\* has published the update of the lip-sync stage or of the arena data.
PastTalkhead(b) ==
  \E i \in 1..Len(pushed[b]) :
    pushed[b][i].message \in { "Applying lip sync (Sync Labs)...",
                               "Generating battle arena data..." }

HasImage(c, side) ==
  Truthy(IF side = "a" THEN c.fighter_a_image_path ELSE c.fighter_b_image_path)

BaseVideo(t, side) == IF side = "a" THEN t.base_video_a ELSE t.base_video_b

TalkingHead(st, side) ==
  IF side = "a" THEN st.talking_head_a ELSE st.talking_head_b

TerminalPushes(log) == {i \in 1..Len(log) : log[i].status \in Terminal}

\* C37: COMPLETE and FAILED are absorbing. In every step, a run whose stage
\* is COMPLETE or FAILED keeps every field of its state and pushes nothing;
\* a history holds at most one terminal snapshot, and once the stage is
\* terminal it holds exactly one, which is its last entry and carries the
\* stage the run has: the run never goes from COMPLETE to FAILED or back.
C37_TerminalAbsorbing ==
  [][\A b \in BattleIds :
       /\ (battles[b] /\ state[b].stage \in Terminal) =>
            /\ battles'[b]
            /\ state'[b] = state[b]
            /\ pushed'[b] = pushed[b]
       /\ Cardinality(TerminalPushes(pushed'[b])) <= 1
       /\ (battles'[b] /\ state'[b].stage \in Terminal) =>
            /\ TerminalPushes(pushed'[b]) = {Len(pushed'[b])}
            /\ pushed'[b][Len(pushed'[b])].stage = state'[b].stage]_vars

\* A run has failed after several updates and a stream has since taken its
\* terminal snapshot from the queue: steps were taken after the terminal
\* stage, and the history ends with the only terminal snapshot.
C37_Witness ==
  \E b \in BattleIds :
    /\ battles[b]
    /\ state[b].stage = "failed"
    /\ Len(pushed[b]) >= 3
    /\ TerminalPushes(pushed[b]) = {Len(pushed[b])}
    /\ \E s \in StreamIds :
         /\ streams[s].pc = "ended"
         /\ streams[s].id = b
         /\ fifo[b] = << >>

\* ---------------------------------------------------------------------
\* cleanup_battle during a run (C38)

\* Run b was created and cleanup_battle(b) has been called since.
Cleaned(b) == task[b].pc # "none" /\ ~battles[b] /\ ~queues[b]

\* The fields of the state only an update writes, with the run's queue and
\* history. (detected_bpm and the artifact fields are also assigned directly
\* on the state object, lines 354-584, registered or not.)
Published(b) ==
  << state[b].stage, state[b].progress, state[b].message, state[b].audio_url,
     state[b].error, fifo[b], pushed[b] >>

\* The registry entries of run b, with what they refer to.
Entries(b) == << battles[b], queues[b], state[b], fifo[b], pushed[b] >>

\* C38: after cleanup_battle(id) during a run, in every step: the id is in
\* neither table again and get_battle(id) is not-found; the run's task goes
\* on without an exception escaping it; its updates write nothing and push
\* nothing; and a step of that task leaves every other run's entries as they
\* were.
C38_CleanupMakesUpdatesNoOps ==
  [][\A b \in BattleIds :
       Cleaned(b) =>
         /\ Cleaned(b)'
         /\ get_battle(b)' = NoBattle
         /\ task'[b].pc = "escaped" => task[b].pc = "escaped"
         /\ Published(b)' = Published(b)
         /\ task'[b] # task[b] =>
              \A o \in BattleIds \ {b} : Entries(o)' = Entries(o)]_vars

\* The first run was cleaned up before its mix and has since gone through the
\* mix and returned, with no trace of it in its history; the other run is
\* registered and has published updates of its own.
C38_Witness ==
  /\ Cleaned("b1")
  /\ task["b1"].pc = "done"
  /\ Truthy(task["b1"].mixed_audio)
  /\ pushed["b1"] # << >>
  /\ ~PastMix("b1")
  /\ battles["b2"]
  /\ get_battle("b2").stage = "mixing"

\* ---------------------------------------------------------------------
\* A stream open at cleanup_battle (C39)

\* Stream s is in its loop on a run that has been cleaned up.
OpenOnCleaned(s) == streams[s].pc = "loop" /\ Cleaned(streams[s].id)

\* C39: a stream that is open when cleanup_battle(id) is called eventually
\* ends. Stated from the moment the run's task has returned, so that the
\* stream is all that is left to run: a stream in its loop on a cleaned-up
\* run whose task has returned eventually ends.
C39_StreamEndsAfterCleanup ==
  \A s \in CleanupStreams :
    (OpenOnCleaned(s) /\ task[streams[s].id].pc = "done")
      ~> streams[s].pc = "ended"

\* ---------------------------------------------------------------------
\* The storyboard pipelines (C31, C33, C34)

\* A call of run_storyboard_pipeline with the number of clips its mode asks
\* for, of which `calls` is the number of segments.
StoryboardRun(calls) ==
  /\ call.fn = "run_storyboard_pipeline"
  /\ calls = (IF call.arg.test_mode THEN 3 ELSE 5)
  /\ Len(call.arg.audio_clips) = calls - 1

\* C31: when the animation of a segment fails (every image was generated,
\* video generation is not skipped and the composition itself works), the
\* pipeline still composes: it returns with a final video.
C31_AnimationFailureStillComposes ==
  \A calls \in {3, 5} :
    ( /\ StoryboardRun(calls)
      /\ call.arg.image_fail >= calls
      /\ ~call.arg.skip_video_generation
      /\ call.arg.video_fail < calls
      /\ call.arg.compose_ok )
    => call.out.final_video # None

\* C33: given 4 verse audio clips and with every image, video and composition
\* call succeeding, run_6shot_pipeline returns success with a final video
\* composed from its 6 shot videos and the list intro + 4 verses + outro.
C33_SixShotRunComposes ==
  ( /\ call.fn = "run_6shot_pipeline"
    /\ Len(call.arg.audio_clips) = 4
    /\ call.arg.image_fail >= 6
    /\ call.arg.video_fail >= 6
    /\ call.arg.compose_ok )
  => /\ call.out.success
     /\ call.out.final_video # None
     /\ Len(call.out.video_segments) = 6
     /\ call.out.final_video[1].video_paths = call.out.video_segments
     /\ Len(call.out.final_video[1].audio_clips) = 6

\* C34: with the clips its mode requires (2 in test mode, 4 in full mode) and
\* every adapter call succeeding, run_storyboard_pipeline returns success
\* with a final video composed from its 3 (test mode) or 5 (full mode)
\* segment videos.
C34_StoryboardRunComposes ==
  \A calls \in {3, 5} :
    ( /\ StoryboardRun(calls)
      /\ call.arg.image_fail >= calls
      /\ ~call.arg.skip_video_generation
      /\ call.arg.video_fail >= calls
      /\ call.arg.lipsync \in {"off", "ok"}
      /\ call.arg.compose_ok )
    => /\ call.out.success
       /\ call.out.final_video # None
       /\ Len(call.out.video_segments) = calls
       /\ call.out.final_video[1].video_paths = call.out.lipsynced_videos

\* ---- C35 ----------------------------------------------------------------
AudioCall == call.fn = "handle_generate_all_audio"
VerseSucceeded(a, v) == v \in a.tasks /\ a.outcome[v] = "ok"
AllVerses == [v \in Verses |-> File("verse", v)]

\* The part of C35 about slots and partial results: slot v holds the audio of
\* verse v or nothing, a verse that succeeded is in its slot, and a missing or
\* failed verse leaves no combined and no beat-mixed track.
SlotsAndPartial ==
  AudioCall =>
    /\ \A v \in Verses : call.out.audio_paths[v] = (IF VerseSucceeded(call.arg, v) THEN Some(File("verse", v)) ELSE None)
    /\ (\E v \in Verses : ~VerseSucceeded(call.arg, v)) => call.out.combined = None /\ call.out.with_beat = None

\* C35: in handle_generate_all_audio, whatever order the verse syntheses
\* complete in, result slot i holds the audio of verse i+1 only, a combined
\* track that is returned is the concatenation of verses 1, 2, 3, 4 in that
\* order, and when any verse is missing or failed no combined and no
\* beat-mixed track is returned while the verses that succeeded stay in their
\* own slots.
C35_VersesKeepOrder ==
  AudioCall =>
    /\ SlotsAndPartial
    /\ call.out.combined # None => call.out.combined = Some(AllVerses)
    /\ call.out.with_beat # None => call.out.with_beat = Some(AllVerses)

\* ---- C32 ----------------------------------------------------------------
PollReturned == Polling("returned")
IsWaiting(resp) == resp.kind = "json" /\ resp.status \in {"PENDING", "RUNNING", "PROCESSING"}
IsSuccessWithOutput(fn, resp) == resp.kind = "json" /\ resp.status = SuccessStatus(fn) /\ resp.output # None

\* What holds of a poll at every moment: the wait never exceeds max_wait by
\* more than one request and one sleep; a timeout is reported only once
\* max_wait has elapsed, after a waiting status, and carries no artifact; and
\* an artifact is returned only for the success status with an output.
PollSafe ==
  call.fn \in Pollers =>
    /\ call.elapsed < max_wait(call.fn) + RequestTimeout + poll_interval(call.fn)
    /\ PollReturned =>
         /\ call.out.message = "Timeout" =>
              /\ call.out.url = None
              /\ call.elapsed >= max_wait(call.fn)
              /\ call.got # None /\ IsWaiting(call.got[1])
         /\ call.out.url # None => IsSuccessWithOutput(call.fn, call.got[1]) /\ call.out.url = call.got[1].output
         /\ call.out.url = None => ~IsSuccessWithOutput(call.fn, call.got[1])

\* A response that is not a waiting status is the last one: the step that
\* handles it returns, with a failure unless it is a success with an output.
EndsAtOnce ==
  (Polling("handle") /\ ~IsWaiting(call.got[1])) => call'.pc = "returned"

\* C32: polling of a long-running job (poll_task_completion,
\* poll_generation_completion) always terminates: a job that stays
\* pending/processing is abandoned once the bounded timeout has elapsed and
\* reported as a failure with no artifact, a terminal or unknown status ends
\* polling at once, and an artifact URL is returned only for a success status
\* that carries an output.
C32_PollingTerminates ==
  /\ []PollSafe
  /\ [][EndsAtOnce]_vars
  /\ (call.fn \in Pollers) ~> PollReturned

\* A job that stayed pending until max_wait had elapsed, given up on.
C32_Witness ==
  /\ PollReturned
  /\ call.out.message = "Timeout"
  /\ call.elapsed >= max_wait(call.fn)

====
